---- MODULE Spec2Model ----
(***************************************************************************)
(* Lazy graph construction pipeline of Adjacent: the fast-path query       *)
(* (QueryService.query), the inference worker (infer_edges) and the edge   *)
(* materializer, over a graph store that holds Product nodes and           *)
(* RECOMMENDATION relationships keyed by edge_id.                          *)
(*                                                                         *)
(* Python dicts are records; a key that a dict may lack is a field that    *)
(* may be missing from the record's DOMAIN.  Floats with three decimals    *)
(* (confidence_0_to_1) are integers counting thousandths.  Timestamps are  *)
(* readings of a strictly increasing clock.                                *)
(***************************************************************************)
EXTENDS Integers, Sequences, FiniteSets, TLC

\* ------------------------------------------------------------------ bounds

NumWorkers == 2
MaxJobs == 2
MaxPatches == 1
MaxSeedAnchors == 2
MaxTopK == 2
MaxEnqueued == 1
MaxAnchorCount == 16
MaxNonPositive == 2

\* ------------------------------------------------------- program constants

CONF_BASE_MILLI == 550
CONF_GROWTH_PERCENT == 15
CONF_CAP_MILLI == 950
ACTIVE_THRESHOLD_MILLI == 700
FIXED_SCALE == 10000000
endpoint_reinforcement_threshold == 5
endpoint_reinforcement_max_confidence == 700

\* ------------------------------------------------------------ identifiers

\* Products written by ingestion: they carry a description and an embedding.
Catalog == {"A", "AB", "B", "C"}

\* Every product id the model speaks about; "Z" is never ingested.
Ids == Catalog \cup {"Z"}

\* Ids an inference patch may name as an endpoint.
PatchIds == {"A", "AB", "B"}

EdgeTypes == {"SIMILAR_TO"}

\* Python's str order is the lexicographic order of the code points.
CodePoints(s) ==
    CASE s = "A" -> <<65>>
      [] s = "AB" -> <<65, 66>>
      [] s = "B" -> <<66>>
      [] s = "C" -> <<67>>
      [] s = "Z" -> <<90>>

RECURSIVE LexLeq(_, _)
LexLeq(s, t) ==
    IF s = <<>> THEN TRUE
    ELSE IF t = <<>> THEN FALSE
    ELSE IF Head(s) < Head(t) THEN TRUE
    ELSE IF Head(s) > Head(t) THEN FALSE
    ELSE LexLeq(Tail(s), Tail(t))

StrLeq(a, b) == LexLeq(CodePoints(a), CodePoints(b))

\* -------------------------------------------------------- pure functions

Range(s) == {s[i] : i \in DOMAIN s}

Contains(s, x) == x \in Range(s)

Min(x, y) == IF x <= y THEN x ELSE y

\* Variant: the pair as given.
canonical_pair_as_given(a, b) == <<a, b>>

canonical_pair(a, b) == IF StrLeq(a, b) THEN <<a, b>> ELSE <<b, a>>

\* The sha256 digest is taken as injective on the string it hashes.
compute_edge_id(edge_type, a, b) == "edge_" \o edge_type \o ":" \o a \o ":" \o b

\* Variant: the exponent is dropped.
DecayPow_first_power(n) == (FIXED_SCALE * (100 - CONF_GROWTH_PERCENT)) \div 100

\* (1 - growth) ** n in units of 1 / FIXED_SCALE.
RECURSIVE DecayPow(_)
DecayPow(n) ==
    IF n = 0 THEN FIXED_SCALE
    ELSE (DecayPow(n - 1) * (100 - CONF_GROWTH_PERCENT)) \div 100

\* round(value, 3): value in units of 1 / FIXED_SCALE to thousandths.
Round3(v) == (v + (FIXED_SCALE \div 2000)) \div (FIXED_SCALE \div 1000)

\* Variant: the rounded value is returned without the cap.
confidence_from_anchors_uncapped(n) ==
    IF n <= 0 THEN 0
    ELSE LET growthPart == (((1000 - CONF_BASE_MILLI) \div 10) * DecayPow(n)) \div 100
             value == FIXED_SCALE - growthPart
         IN  Round3(value)

confidence_from_anchors(n) ==
    IF n <= 0 THEN 0
    ELSE LET growthPart == (((1000 - CONF_BASE_MILLI) \div 10) * DecayPow(n)) \div 100
             value == FIXED_SCALE - growthPart
         IN  Min(CONF_CAP_MILLI, Round3(value))

\* Variant: the threshold comparison inverted.
StatusOf_inverted(confidence) ==
    IF confidence <= ACTIVE_THRESHOLD_MILLI THEN "ACTIVE" ELSE "PROPOSED"

StatusOf(confidence) ==
    IF confidence >= ACTIVE_THRESHOLD_MILLI THEN "ACTIVE" ELSE "PROPOSED"

\* existing_edge is None
None == [none |-> TRUE]

IsNone(e) == "none" \in DOMAIN e

ProvenanceKeys == {"created_kind", "created_under_anchor_id", "created_in_job_id"}

\* dict restricted to the keys in ks that it has
Restrict(d, ks) == [k \in (DOMAIN d) \cap ks |-> d[k]]

\* Variant: the existing list is not read.
NextAnchorsSeen_reset(anchor_id, existing_edge) == <<anchor_id>>

\* Variant: anchor_id is appended without the membership test.
NextAnchorsSeen_always_append(anchor_id, existing_edge) ==
    IF IsNone(existing_edge) THEN <<anchor_id>>
    ELSE Append(IF "anchors_seen" \in DOMAIN existing_edge
                THEN existing_edge.anchors_seen ELSE <<>>, anchor_id)

\* anchors_seen of materialize: [anchor_id] for a new edge, else the existing
\* list with anchor_id appended when it is absent.
NextAnchorsSeen(anchor_id, existing_edge) ==
    IF IsNone(existing_edge) THEN <<anchor_id>>
    ELSE LET seen == IF "anchors_seen" \in DOMAIN existing_edge
                     THEN existing_edge.anchors_seen ELSE <<>>
         IN  IF Contains(seen, anchor_id) THEN seen ELSE Append(seen, anchor_id)

\* Variant: provenance fields the existing edge lacks are stamped from the
\* arguments.
Provenance_fills_missing(anchor_id, existing_edge, created_kind, job_id) ==
    (IF IsNone(existing_edge) THEN <<>> ELSE Restrict(existing_edge, ProvenanceKeys))
    @@ (IF created_kind # None THEN [created_kind |-> created_kind.v] ELSE <<>>)
    @@ [created_under_anchor_id |-> anchor_id]
    @@ (IF job_id # None THEN [created_in_job_id |-> job_id.v] ELSE <<>>)

\* Provenance fields of materialize; created_kind and job_id may be None.
Provenance(anchor_id, existing_edge, created_kind, job_id) ==
    IF IsNone(existing_edge)
    THEN (IF created_kind # None THEN [created_kind |-> created_kind.v] ELSE <<>>)
         @@ [created_under_anchor_id |-> anchor_id]
         @@ (IF job_id # None THEN [created_in_job_id |-> job_id.v] ELSE <<>>)
    ELSE Restrict(existing_edge, ProvenanceKeys)

\* Variant: the endpoints are stored in the patch's order.
Materialize_patch_order(patch, anchor_id, existing_edge, created_kind, job_id, now) ==
    LET ab == canonical_pair(patch.from_id, patch.to_id)
        anchors_seen == NextAnchorsSeen(anchor_id, existing_edge)
        created_at == IF IsNone(existing_edge) THEN now ELSE existing_edge.created_at
        confidence == confidence_from_anchors(Len(anchors_seen))
    IN  [edge_id |-> compute_edge_id(patch.edge_type, ab[1], ab[2]),
         edge_type |-> patch.edge_type,
         from_id |-> patch.from_id,
         to_id |-> patch.to_id,
         anchors_seen |-> anchors_seen,
         confidence_0_to_1 |-> confidence,
         status |-> StatusOf(confidence),
         created_at |-> created_at,
         last_reinforced_at |-> now]
        @@ Provenance(anchor_id, existing_edge, created_kind, job_id)

\* EdgeMaterializer.materialize; now is the reading of utc_now().
Materialize(patch, anchor_id, existing_edge, created_kind, job_id, now) ==
    LET ab == canonical_pair(patch.from_id, patch.to_id)
        anchors_seen == NextAnchorsSeen(anchor_id, existing_edge)
        created_at == IF IsNone(existing_edge) THEN now ELSE existing_edge.created_at
        confidence == confidence_from_anchors(Len(anchors_seen))
    IN  [edge_id |-> compute_edge_id(patch.edge_type, ab[1], ab[2]),
         edge_type |-> patch.edge_type,
         from_id |-> ab[1],
         to_id |-> ab[2],
         anchors_seen |-> anchors_seen,
         confidence_0_to_1 |-> confidence,
         status |-> StatusOf(confidence),
         created_at |-> created_at,
         last_reinforced_at |-> now]
        @@ Provenance(anchor_id, existing_edge, created_kind, job_id)

\* ------------------------------------------------------------------ state

VARIABLES
    products,    \* ids of the Product nodes in the graph store
    edges,       \* edge_id -> stored RECOMMENDATION relationship
    queue,       \* jobs enqueued and not yet picked up by a worker
    worker,      \* per worker process: position in infer_edges and its locals
    clock,       \* next reading of utc_now()
    nextJobId,   \* id the queue gives to the next enqueued job
    writers,     \* history: edge_id -> anchor ids of the jobs that upserted it
    stale,       \* history: the worker's last upsert overwrote an edge that had
                 \* changed since the worker read it
    q,           \* the request in QueryService.query: position and locals
    config,      \* AsyncConfig of the query service
    pure         \* inputs and outputs of the pure functions applied on their own

vars == <<products, edges, queue, worker, clock, nextJobId, writers, stale, q,
          config, pure>>

\* What the worker leaves alone.
frontVars == <<q, config, pure>>

Workers == 1 .. NumWorkers

Patch == [edge_type : EdgeTypes, from_id : PatchIds, to_id : PatchIds]

\* Lists of patches the inference collaborator may return.
RECURSIVE SeqsUpTo(_, _)
SeqsUpTo(S, n) ==
    IF n = 0 THEN {<<>>}
    ELSE LET shorter == SeqsUpTo(S, n - 1)
         IN  shorter \cup {Append(s, x) : s \in {t \in shorter : Len(t) = n - 1}, x \in S}

PatchLists == SeqsUpTo(Patch, MaxPatches)

CatalogOrder == <<"A", "AB", "B", "C">>

\* ------------------------------------------------------------ graph store

\* Neo4jEdgeStore.get_edge: the stored relationship with canonical endpoints,
\* or None.
get_edge(store, edge_id) ==
    IF edge_id \in DOMAIN store
    THEN LET r == store[edge_id]
             ab == canonical_pair(r.from_id, r.to_id)
         IN  [from_id |-> ab[1], to_id |-> ab[2]] @@ r
    ELSE None

\* Variant: the stored anchors_seen is merged with the edge's instead of
\* overwritten.
upsert_edge_merge_anchors(store, edge) ==
    IF edge.edge_id \in DOMAIN store
    THEN LET stored == store[edge.edge_id]
             missing == SelectSeq(stored.anchors_seen,
                                  LAMBDA x : ~Contains(edge.anchors_seen, x))
         IN  [store EXCEPT ![edge.edge_id] =
                  [anchors_seen |-> edge.anchors_seen \o missing]
                  @@ Restrict(edge, DOMAIN edge \ {"from_id", "to_id"}) @@ stored]
    ELSE store @@ (edge.edge_id :> edge)

\* Variant: status is set on creation only.
upsert_edge_keep_status(store, edge) ==
    IF edge.edge_id \in DOMAIN store
    THEN [store EXCEPT ![edge.edge_id] =
              Restrict(edge, DOMAIN edge \ {"from_id", "to_id", "status"})
                  @@ store[edge.edge_id]]
    ELSE store @@ (edge.edge_id :> edge)

\* Neo4jEdgeStore.upsert_edge: MERGE the relationship by edge_id, then
\* SET r += rel_props (keys of the edge overwrite, other stored keys stay).
upsert_edge(store, edge) ==
    IF edge.edge_id \in DOMAIN store
    THEN [store EXCEPT ![edge.edge_id] =
              Restrict(edge, DOMAIN edge \ {"from_id", "to_id"}) @@ store[edge.edge_id]]
    ELSE store @@ (edge.edge_id :> edge)

\* The two MERGE clauses on the endpoints create missing Product nodes.
merge_endpoints(nodes, edge) == nodes \cup {edge.from_id, edge.to_id}

\* Variant: every requested id comes back as a product.
fetch_products_unfiltered(nodes, product_ids) == product_ids

\* Neo4jContext.fetch_products: the products among product_ids that exist.
fetch_products(nodes, product_ids) == SelectSeq(product_ids, LAMBDA c : c \in nodes)

\* ------------------------------------------------------- inference worker

IdleWorker ==
    [pc |-> "idle", anchor_id |-> "", candidate_ids |-> <<>>, job_id |-> 0,
     patches |-> <<>>, idx |-> 0, edge_id |-> "", existing |-> None,
     full_edge |-> None, edges_created |-> 0, edges_reinforced |-> 0,
     edges_noop_existing |-> 0, anchor_edges_created |-> 0,
     candidate_edges_created |-> 0, result |-> None,
     llm_calls |-> 0, anchor_inferred |-> FALSE]

\* created_kind of infer_edges: set for new edges only.
CreatedKind(a, b, anchor_id, existing) ==
    IF IsNone(existing)
    THEN (IF a = anchor_id \/ b = anchor_id
          THEN [v |-> "anchor_candidate"] ELSE [v |-> "candidate_candidate"])
    ELSE None

\* A worker takes the next job from the queue and enters infer_edges, which
\* returns at once when no API key is configured.  The worker processes are
\* interchangeable: the first idle one takes the job.
Dequeue(w) ==
    /\ worker[w].pc = "idle"
    /\ \A v \in Workers : v < w => worker[v].pc # "idle"
    /\ queue # <<>>
    /\ worker' = [worker EXCEPT ![w] =
           IF config.openai_api_key
           THEN [IdleWorker EXCEPT !.pc = "fetch_products",
                                   !.anchor_id = Head(queue).anchor_id,
                                   !.candidate_ids = Head(queue).candidate_ids,
                                   !.job_id = Head(queue).job_id]
           ELSE [IdleWorker EXCEPT !.pc = "done",
                                   !.anchor_id = Head(queue).anchor_id,
                                   !.candidate_ids = Head(queue).candidate_ids,
                                   !.job_id = Head(queue).job_id,
                                   !.result = [anchor_id |-> Head(queue).anchor_id,
                                               edges_created |-> 0,
                                               edges_reinforced |-> 0,
                                               error |-> "No OpenAI API key configured"]]]
    /\ queue' = Tail(queue)
    /\ stale' = [stale EXCEPT ![w] = FALSE]
    /\ UNCHANGED <<products, edges, clock, nextJobId, writers, frontVars>>

\* fetch_products span: missing anchor and no resolving candidate end the job.
FetchProducts(w) ==
    LET me == worker[w] IN
    /\ me.pc = "fetch_products"
    /\ worker' = [worker EXCEPT ![w] =
           IF me.anchor_id \notin products
           THEN [me EXCEPT !.pc = "done",
                           !.result = [anchor_id |-> me.anchor_id, edges_created |-> 0,
                                       edges_reinforced |-> 0,
                                       error |-> "Anchor product not found"]]
           ELSE IF fetch_products(products, me.candidate_ids) = <<>>
           THEN [me EXCEPT !.pc = "done",
                           !.result = [anchor_id |-> me.anchor_id, edges_created |-> 0,
                                       edges_reinforced |-> 0]]
           ELSE [me EXCEPT !.pc = "llm_call"]]
    /\ UNCHANGED <<products, edges, queue, clock, nextJobId, writers, stale, frontVars>>

\* Variant: a failed call is made again.
LLMCallFails_retries(w) ==
    LET me == worker[w] IN
    /\ me.pc = "llm_call"
    /\ worker' = [worker EXCEPT ![w] = [me EXCEPT !.llm_calls = @ + 1]]
    /\ UNCHANGED <<products, edges, queue, clock, nextJobId, writers, stale, frontVars>>

\* llm_call span, the call raises: the job returns an error result.
LLMCallFails(w) ==
    LET me == worker[w] IN
    /\ me.pc = "llm_call"
    /\ worker' = [worker EXCEPT ![w] =
           [me EXCEPT !.pc = "done",
                      !.llm_calls = @ + 1,
                      !.result = [anchor_id |-> me.anchor_id, edges_created |-> 0,
                                  edges_reinforced |-> 0,
                                  error |-> "LLM inference failed"]]]
    /\ UNCHANGED <<products, edges, queue, clock, nextJobId, writers, stale, frontVars>>

\* llm_call span, the call returns a list of patches.
LLMCallReturns(w) ==
    LET me == worker[w] IN
    /\ me.pc = "llm_call"
    /\ \E patches \in PatchLists :
          worker' = [worker EXCEPT ![w] =
              [me EXCEPT !.pc = IF patches = <<>> THEN "mark_anchor_inferred"
                                ELSE "get_edge",
                         !.llm_calls = @ + 1,
                         !.patches = patches,
                         !.idx = 1]]
    /\ UNCHANGED <<products, edges, queue, clock, nextJobId, writers, stale, frontVars>>

\* Loop body, first round trip: compute the edge id and read the stored edge.
GetEdge(w) ==
    LET me == worker[w]
        patch == me.patches[me.idx]
        ab == canonical_pair(patch.from_id, patch.to_id)
        edge_id == compute_edge_id(patch.edge_type, ab[1], ab[2])
    IN
    /\ me.pc = "get_edge"
    /\ worker' = [worker EXCEPT ![w] =
           [me EXCEPT !.pc = "materialize",
                      !.edge_id = edge_id,
                      !.existing = get_edge(edges, edge_id)]]
    /\ UNCHANGED <<products, edges, queue, clock, nextJobId, writers, stale, frontVars>>

\* Loop body, local step: materialize the patch against what was read.
MaterializeStep(w) ==
    LET me == worker[w]
        patch == me.patches[me.idx]
        ab == canonical_pair(patch.from_id, patch.to_id)
    IN
    /\ me.pc = "materialize"
    /\ worker' = [worker EXCEPT ![w] =
           [me EXCEPT !.pc = "upsert_edge",
                      !.full_edge =
                          Materialize(patch, me.anchor_id, me.existing,
                                      CreatedKind(ab[1], ab[2], me.anchor_id, me.existing),
                                      [v |-> me.job_id], clock)]]
    /\ clock' = clock + 1
    /\ UNCHANGED <<products, edges, queue, nextJobId, writers, stale, frontVars>>

\* Variant: every patch against an existing edge counts as reinforced.
Tally_existing_is_reinforced(me, a, b) ==
    IF ~IsNone(me.existing)
    THEN [me EXCEPT !.edges_reinforced = @ + 1]
    ELSE IF a = me.anchor_id \/ b = me.anchor_id
         THEN [me EXCEPT !.edges_created = @ + 1, !.anchor_edges_created = @ + 1]
         ELSE [me EXCEPT !.edges_created = @ + 1, !.candidate_edges_created = @ + 1]

\* The counters of infer_edges after one patch.
Tally(me, a, b) ==
    IF ~IsNone(me.existing)
    THEN IF ~Contains(me.existing.anchors_seen, me.anchor_id)
         THEN [me EXCEPT !.edges_reinforced = @ + 1]
         ELSE [me EXCEPT !.edges_noop_existing = @ + 1]
    ELSE IF a = me.anchor_id \/ b = me.anchor_id
         THEN [me EXCEPT !.edges_created = @ + 1, !.anchor_edges_created = @ + 1]
         ELSE [me EXCEPT !.edges_created = @ + 1, !.candidate_edges_created = @ + 1]

\* Loop body, second round trip: write the edge, count it, go to the next patch.
UpsertEdge(w) ==
    LET me == worker[w]
        patch == me.patches[me.idx]
        ab == canonical_pair(patch.from_id, patch.to_id)
        eid == me.full_edge.edge_id
    IN
    /\ me.pc = "upsert_edge"
    /\ edges' = upsert_edge(edges, me.full_edge)
    /\ products' = merge_endpoints(products, me.full_edge)
    /\ writers' = IF eid \in DOMAIN writers
                  THEN [writers EXCEPT ![eid] = @ \cup {me.anchor_id}]
                  ELSE writers @@ (eid :> {me.anchor_id})
    /\ worker' = [worker EXCEPT ![w] =
           [Tally(me, ab[1], ab[2]) EXCEPT
               !.pc = IF me.idx < Len(me.patches) THEN "get_edge"
                      ELSE "mark_anchor_inferred",
               !.idx = me.idx + 1]]
    /\ stale' = [stale EXCEPT ![w] = (me.existing # get_edge(edges, me.edge_id))]
    /\ UNCHANGED <<queue, clock, nextJobId, frontVars>>

\* mark_anchor_inferred span and the final result.
MarkAnchorInferred(w) ==
    LET me == worker[w] IN
    /\ me.pc = "mark_anchor_inferred"
    /\ worker' = [worker EXCEPT ![w] =
           [me EXCEPT !.pc = "done",
                      !.anchor_inferred = TRUE,
                      !.result = [anchor_id |-> me.anchor_id,
                                  edges_created |-> me.edges_created,
                                  anchor_edges_created |-> me.anchor_edges_created,
                                  candidate_edges_created |-> me.candidate_edges_created,
                                  edges_reinforced |-> me.edges_reinforced,
                                  edges_noop_existing |-> me.edges_noop_existing]]]
    /\ UNCHANGED <<products, edges, queue, clock, nextJobId, writers, stale, frontVars>>

\* A call of the job body outside the try/except around construct_patch raises
\* (fetching or projecting the products, building the inference service,
\* patch["edge_type"], get_edge, materialize, upsert_edge, marking the anchor):
\* the spans re-raise, the finally closes the context, and the exception
\* leaves infer_edges.  The failed call has written nothing.
StepRaises(w) ==
    LET me == worker[w] IN
    /\ me.pc \in {"fetch_products", "llm_call", "get_edge", "materialize",
                  "upsert_edge", "mark_anchor_inferred"}
    /\ worker' = [worker EXCEPT ![w] =
           [IdleWorker EXCEPT !.pc = "raised",
                              !.anchor_id = me.anchor_id,
                              !.candidate_ids = me.candidate_ids,
                              !.job_id = me.job_id]]
    /\ UNCHANGED <<products, edges, queue, clock, nextJobId, writers, stale, frontVars>>

\* infer_edges has returned or raised: the worker process is free for the
\* next job.
JobReturn(w) ==
    /\ worker[w].pc \in {"done", "raised"}
    /\ worker' = [worker EXCEPT ![w] = IdleWorker]
    /\ UNCHANGED <<products, edges, queue, clock, nextJobId, writers, stale, frontVars>>

WorkerNext ==
    \E w \in Workers :
        \/ Dequeue(w)
        \/ FetchProducts(w)
        \/ LLMCallFails(w)
        \/ LLMCallReturns(w)
        \/ GetEdge(w)
        \/ MaterializeStep(w)
        \/ UpsertEdge(w)
        \/ MarkAnchorInferred(w)
        \/ StepRaises(w)
        \/ JobReturn(w)

\* ------------------------------------------------- graph and vector reads

\* The relationships matched by (a {id: anchor_id})-[r]-(b): the stored edges
\* with anchor_id at one end.
IncidentEdges(store, anchor_id) ==
    {id \in DOMAIN store : store[id].from_id = anchor_id \/ store[id].to_id = anchor_id}

\* b.id of the match: the other end (the anchor itself for a self-loop).
OtherEnd(r, anchor_id) == IF r.from_id = anchor_id THEN r.to_id ELSE r.from_id

\* ORDER BY confidence_0_to_1 DESC, last_reinforced_at DESC: r1 sorts before r2.
SortsBefore(r1, r2) ==
    \/ r1.confidence_0_to_1 > r2.confidence_0_to_1
    \/ /\ r1.confidence_0_to_1 = r2.confidence_0_to_1
       /\ r1.last_reinforced_at > r2.last_reinforced_at

\* Variant: any relationship of the candidate.
BestEdge_any(store, anchor_id, candidate_id) ==
    CHOOSE id \in IncidentEdges(store, anchor_id) :
        OtherEnd(store[id], anchor_id) = candidate_id

\* collect(props)[0] per candidate_id: the relationship that sorts first.
BestEdge(store, anchor_id, candidate_id) ==
    LET mine == {id \in IncidentEdges(store, anchor_id) :
                     OtherEnd(store[id], anchor_id) = candidate_id}
    IN  CHOOSE id \in mine : \A other \in mine \ {id} : ~SortsBefore(store[other], store[id])

\* The ids of S (one per candidate) in the order of the second ORDER BY.
RECURSIVE SortedEdges(_, _)
SortedEdges(store, S) ==
    IF S = {} THEN <<>>
    ELSE LET first == CHOOSE id \in S :
                          \A other \in S \ {id} : ~SortsBefore(store[other], store[id])
         IN  <<first>> \o SortedEdges(store, S \ {first})

\* Neo4jEdgeStore.get_neighbors without edge_type and min_conf filters.
get_neighbors(store, anchor_id, limit) ==
    LET candidates == {OtherEnd(store[id], anchor_id) : id \in IncidentEdges(store, anchor_id)}
        best == {BestEdge(store, anchor_id, c) : c \in candidates}
        sorted == SortedEdges(store, best)
        cut == SubSeq(sorted, 1, Min(limit, Len(sorted)))
    IN  [i \in DOMAIN cut |->
            LET r == store[cut[i]]
                c == OtherEnd(r, anchor_id)
                ab == canonical_pair(anchor_id, c)
            IN  [candidate_id |-> c, from_id |-> ab[1], to_id |-> ab[2]] @@ r]

\* Neo4jEdgeStore.get_anchor_edges_with_metadata: per connected candidate the
\* maxima over the relationships between the anchor and the candidate.
SetMax(S) == CHOOSE x \in S : \A y \in S : y <= x

get_anchor_edges_with_metadata(store, anchor_id, candidate_ids) ==
    LET connected == {c \in Range(candidate_ids) :
                         \E id \in IncidentEdges(store, anchor_id) :
                             OtherEnd(store[id], anchor_id) = c}
        between(c) == {id \in IncidentEdges(store, anchor_id) :
                           OtherEnd(store[id], anchor_id) = c}
    IN  [c \in connected |->
            [max_anchor_count |->
                 SetMax({Len(store[id].anchors_seen) : id \in between(c)}),
             max_confidence_0_to_1 |->
                 SetMax({store[id].confidence_0_to_1 : id \in between(c)})]]

\* Neo4jEdgeStore.get_anchor_edges: the candidates with any edge to the anchor.
get_anchor_edges(store, anchor_id, candidate_ids) ==
    {c \in Range(candidate_ids) :
        \E id \in IncidentEdges(store, anchor_id) : OtherEnd(store[id], anchor_id) = c}

\* Products in the vector index are the ingested ones; a node created by a
\* MERGE of upsert_edge has neither embedding nor description.
HasEmbeddingInput(product_id) == product_id \in Catalog

\* Neo4jVectorStore.similarity_search: the top_k nearest indexed products (all
\* of them when the index is smaller), in an order the scores decide.
SimilaritySearches(top_k) ==
    LET n == Min(top_k, Cardinality(Catalog))
    IN  {s \in SeqsUpTo(Catalog, n) : Len(s) = n /\ Cardinality(Range(s)) = n}

\* ---------------------------------------------------------- query service

IdleQuery ==
    [pc |-> "idle", product_id |-> "", top_k |-> 0, skip_inference |-> FALSE,
     recommendations |-> <<>>, from_graph |-> 0, from_vector |-> 0,
     vector_searched |-> FALSE, search_results |-> <<>>, vector_candidates |-> <<>>,
     new_candidates |-> <<>>, inference_status |-> "", job_id |-> None, error |-> "",
     query_counted |-> FALSE]

GraphRecommendation(n) ==
    [product_id |-> n.candidate_id, edge_type |-> [v |-> n.edge_type],
     confidence |-> [v |-> n.confidence_0_to_1], source |-> "graph"]

VectorRecommendation(pid) ==
    [product_id |-> pid, edge_type |-> None, confidence |-> None, source |-> "vector"]

\* Variant: the loop without the len(recommendations) < top_k test.
RECURSIVE FillFromVector_no_limit(_, _, _, _)
FillFromVector_no_limit(recommendations, existing_ids, search_results, top_k) ==
    IF search_results = <<>> THEN recommendations
    ELSE LET pid == Head(search_results)
         IN  IF pid \notin existing_ids
             THEN FillFromVector_no_limit(
                      Append(recommendations, VectorRecommendation(pid)),
                      existing_ids \cup {pid}, Tail(search_results), top_k)
             ELSE FillFromVector_no_limit(recommendations, existing_ids,
                                          Tail(search_results), top_k)

\* Variant: the loop without the existing_ids test.
RECURSIVE FillFromVector_keeps_known(_, _, _, _)
FillFromVector_keeps_known(recommendations, existing_ids, search_results, top_k) ==
    IF search_results = <<>> THEN recommendations
    ELSE LET pid == Head(search_results)
         IN  IF Len(recommendations) < top_k
             THEN FillFromVector_keeps_known(
                      Append(recommendations, VectorRecommendation(pid)),
                      existing_ids \cup {pid}, Tail(search_results), top_k)
             ELSE FillFromVector_keeps_known(recommendations, existing_ids,
                                             Tail(search_results), top_k)

\* The loop over search_results: results not yet recommended and not the anchor
\* are appended while fewer than top_k recommendations are held.
RECURSIVE FillFromVector(_, _, _, _)
FillFromVector(recommendations, existing_ids, search_results, top_k) ==
    IF search_results = <<>> THEN recommendations
    ELSE LET pid == Head(search_results)
         IN  IF pid \notin existing_ids /\ Len(recommendations) < top_k
             THEN FillFromVector(Append(recommendations, VectorRecommendation(pid)),
                                 existing_ids \cup {pid}, Tail(search_results), top_k)
             ELSE FillFromVector(recommendations, existing_ids, Tail(search_results), top_k)

RecommendedIds(recommendations, source) ==
    LET picked == SelectSeq(recommendations, LAMBDA r : r.source = source)
    IN  [i \in DOMAIN picked |-> picked[i].product_id]

\* Variant: either limit alone lets a connected candidate through.
NewCandidates_either_limit(store, cfg, product_id, all_candidate_ids) ==
    IF cfg.allow_endpoint_reinforcement
    THEN LET connected_edges ==
                 get_anchor_edges_with_metadata(store, product_id, all_candidate_ids)
         IN  SelectSeq(all_candidate_ids,
                 LAMBDA cid :
                     \/ cid \notin DOMAIN connected_edges
                     \/ connected_edges[cid].max_anchor_count
                            < endpoint_reinforcement_threshold
                     \/ connected_edges[cid].max_confidence_0_to_1
                            < endpoint_reinforcement_max_confidence)
    ELSE LET connected == get_anchor_edges(store, product_id, all_candidate_ids)
         IN  SelectSeq(all_candidate_ids, LAMBDA cid : cid \notin connected)

\* Step 3: the vector candidates that are offered for inference.
NewCandidates(store, cfg, product_id, all_candidate_ids) ==
    IF cfg.allow_endpoint_reinforcement
    THEN LET connected_edges ==
                 get_anchor_edges_with_metadata(store, product_id, all_candidate_ids)
         IN  SelectSeq(all_candidate_ids,
                 LAMBDA cid :
                     \/ cid \notin DOMAIN connected_edges
                     \/ /\ connected_edges[cid].max_anchor_count
                              < endpoint_reinforcement_threshold
                        /\ connected_edges[cid].max_confidence_0_to_1
                              < endpoint_reinforcement_max_confidence)
    ELSE LET connected == get_anchor_edges(store, product_id, all_candidate_ids)
         IN  SelectSeq(all_candidate_ids, LAMBDA cid : cid \notin connected)

\* What the query leaves alone.
backVars == <<worker, clock, writers, stale, config, pure>>

\* A request arrives.  Requests that may enqueue are admitted while the queue
\* still hands out job ids up to MaxEnqueued.
QueryStart ==
    /\ q.pc = "idle"
    /\ \E product_id \in Ids, top_k \in 1 .. MaxTopK, skip_inference \in BOOLEAN :
          /\ skip_inference \/ ~config.openai_api_key \/ nextJobId <= MaxEnqueued
          /\ q' = [IdleQuery EXCEPT !.pc = "fetch_anchor",
                                    !.product_id = product_id,
                                    !.top_k = top_k,
                                    !.skip_inference = skip_inference]
    /\ UNCHANGED <<products, edges, queue, nextJobId, backVars>>

\* Variant: fetch_anchor without the test of what was fetched.
FetchAnchor_unchecked ==
    /\ q.pc = "fetch_anchor"
    /\ q' = [q EXCEPT !.pc = "increment_query_count"]
    /\ UNCHANGED <<products, edges, queue, nextJobId, backVars>>

\* fetch_anchor span: a missing anchor raises ValueError("Product not found").
FetchAnchor ==
    /\ q.pc = "fetch_anchor"
    /\ q' = IF q.product_id \notin products
            THEN [q EXCEPT !.pc = "raised", !.error = "Product not found"]
            ELSE [q EXCEPT !.pc = "increment_query_count"]
    /\ UNCHANGED <<products, edges, queue, nextJobId, backVars>>

\* increment_query_count span: total_query_count of the anchor goes up by one.
\* No code reads the property: the request keeps that it has counted.
IncrementQueryCount ==
    /\ q.pc = "increment_query_count"
    /\ q' = [q EXCEPT !.pc = "graph_neighbors", !.query_counted = TRUE]
    /\ UNCHANGED <<products, edges, queue, nextJobId, backVars>>

\* increment_query_count span, the store call raises: neither
\* _increment_query_count nor query catches, the exception leaves query.
IncrementQueryCountRaises ==
    /\ q.pc = "increment_query_count"
    /\ q' = [q EXCEPT !.pc = "raised", !.error = "query count update failed"]
    /\ UNCHANGED <<products, edges, queue, nextJobId, backVars>>

\* Step 1: the graph neighbours become the first recommendations.
GraphNeighbors ==
    LET neighbors == get_neighbors(edges, q.product_id, q.top_k)
        recommendations == [i \in DOMAIN neighbors |-> GraphRecommendation(neighbors[i])]
    IN
    /\ q.pc = "graph_neighbors"
    /\ q' = [q EXCEPT !.pc = IF q.top_k - Len(recommendations) > 0
                             THEN "vector_search" ELSE "enqueue_inference",
                      !.recommendations = recommendations,
                      !.from_graph = Len(recommendations)]
    /\ UNCHANGED <<products, edges, queue, nextJobId, backVars>>

\* Step 2: vector search fills the remaining slots.
VectorSearch ==
    /\ q.pc = "vector_search"
    /\ \E search_results \in SimilaritySearches(q.top_k + q.from_graph + 1) :
          LET existing_ids ==
                  {q.recommendations[i].product_id : i \in DOMAIN q.recommendations}
                      \cup {q.product_id}
              filled == FillFromVector(q.recommendations, existing_ids,
                                       search_results, q.top_k)
              vector_candidates == RecommendedIds(filled, "vector")
          IN  q' = IF ~HasEmbeddingInput(q.product_id)
                   THEN [q EXCEPT !.pc = "raised", !.error = "has no description"]
                   ELSE [q EXCEPT !.pc = "enqueue_inference",
                                  !.vector_searched = TRUE,
                                  !.search_results = search_results,
                                  !.recommendations = filled,
                                  !.vector_candidates = vector_candidates,
                                  !.from_vector = Len(vector_candidates)]
    /\ UNCHANGED <<products, edges, queue, nextJobId, backVars>>

\* Variant: step 3 that goes on only once the workers have emptied the queue.
EnqueueInference_awaits_workers ==
    LET all_candidate_ids == RecommendedIds(q.recommendations, "vector")
        new_candidates ==
            IF ~q.skip_inference /\ config.openai_api_key /\ all_candidate_ids # <<>>
            THEN NewCandidates(edges, config, q.product_id, all_candidate_ids)
            ELSE <<>>
    IN
    /\ q.pc = "enqueue_inference"
    /\ queue = <<>>
    /\ IF new_candidates # <<>>
       THEN /\ queue' = Append(queue, [anchor_id |-> q.product_id,
                                       candidate_ids |-> new_candidates,
                                       job_id |-> nextJobId])
            /\ nextJobId' = nextJobId + 1
            /\ q' = [q EXCEPT !.pc = "return",
                              !.new_candidates = new_candidates,
                              !.job_id = [v |-> nextJobId],
                              !.inference_status = "enqueued"]
       ELSE /\ UNCHANGED <<queue, nextJobId>>
            /\ q' = [q EXCEPT !.pc = "return",
                              !.inference_status =
                                  IF ~q.skip_inference /\ config.openai_api_key
                                  THEN "complete" ELSE "skipped"]
    /\ UNCHANGED <<products, edges, backVars>>

\* Variant: step 3 without the skip_inference test.
EnqueueInference_ignores_skip ==
    LET all_candidate_ids == RecommendedIds(q.recommendations, "vector")
        new_candidates ==
            IF config.openai_api_key /\ all_candidate_ids # <<>>
            THEN NewCandidates(edges, config, q.product_id, all_candidate_ids)
            ELSE <<>>
    IN
    /\ q.pc = "enqueue_inference"
    /\ IF new_candidates # <<>>
       THEN /\ queue' = Append(queue, [anchor_id |-> q.product_id,
                                       candidate_ids |-> new_candidates,
                                       job_id |-> nextJobId])
            /\ nextJobId' = nextJobId + 1
            /\ q' = [q EXCEPT !.pc = "return",
                              !.new_candidates = new_candidates,
                              !.job_id = [v |-> nextJobId],
                              !.inference_status = "enqueued"]
       ELSE /\ UNCHANGED <<queue, nextJobId>>
            /\ q' = [q EXCEPT !.pc = "return",
                              !.inference_status =
                                  IF config.openai_api_key
                                  THEN "complete" ELSE "skipped"]
    /\ UNCHANGED <<products, edges, backVars>>

\* Step 3: filter the vector candidates and enqueue a job for what remains.
EnqueueInference ==
    LET all_candidate_ids == RecommendedIds(q.recommendations, "vector")
        new_candidates ==
            IF ~q.skip_inference /\ config.openai_api_key /\ all_candidate_ids # <<>>
            THEN NewCandidates(edges, config, q.product_id, all_candidate_ids)
            ELSE <<>>
    IN
    /\ q.pc = "enqueue_inference"
    /\ IF new_candidates # <<>>
       THEN /\ queue' = Append(queue, [anchor_id |-> q.product_id,
                                       candidate_ids |-> new_candidates,
                                       job_id |-> nextJobId])
            /\ nextJobId' = nextJobId + 1
            /\ q' = [q EXCEPT !.pc = "return",
                              !.new_candidates = new_candidates,
                              !.job_id = [v |-> nextJobId],
                              !.inference_status = "enqueued"]
       ELSE /\ UNCHANGED <<queue, nextJobId>>
            /\ q' = [q EXCEPT !.pc = "return",
                              !.inference_status =
                                  IF ~q.skip_inference /\ config.openai_api_key
                                  THEN "complete" ELSE "skipped"]
    /\ UNCHANGED <<products, edges, backVars>>

\* The QueryResult (or the exception) has gone to the caller.
QueryEnd ==
    /\ q.pc \in {"return", "raised"}
    /\ q' = IdleQuery
    /\ UNCHANGED <<products, edges, queue, nextJobId, backVars>>

QueryNext ==
    \/ QueryStart
    \/ FetchAnchor
    \/ IncrementQueryCount
    \/ IncrementQueryCountRaises
    \/ GraphNeighbors
    \/ VectorSearch
    \/ EnqueueInference
    \/ QueryEnd

NoPure == [step |-> "none"]

Init ==
    /\ products = Catalog
    /\ edges = <<>>
    /\ queue = <<>>
    /\ worker = [w \in Workers |-> IdleWorker]
    /\ clock = 1
    /\ nextJobId = 1
    /\ writers = <<>>
    /\ stale = [w \in Workers |-> FALSE]
    /\ q = IdleQuery
    /\ config \in [openai_api_key : BOOLEAN, allow_endpoint_reinforcement : BOOLEAN]
    /\ pure = NoPure

Next == QueryNext \/ WorkerNext

Spec == Init /\ [][Next]_vars

\* The request thread runs its own steps whatever the workers do; the worker
\* processes get no fairness: they may run, lag or never start.
FastProducts == {"A", "Z"}

FastQueryStart ==
    /\ QueryStart
    /\ q'.product_id \in FastProducts

FastQueryNext ==
    \/ FastQueryStart
    \/ FetchAnchor
    \/ IncrementQueryCount
    \/ IncrementQueryCountRaises
    \/ GraphNeighbors
    \/ VectorSearch
    \/ EnqueueInference
    \/ QueryEnd

NextFast == FastQueryNext \/ WorkerNext

SpecFast == Init /\ [][NextFast]_vars /\ WF_vars(FastQueryNext)

\* ---------------------------------------------- workers on a shared store

\* The store after earlier jobs, run one after the other under the anchors of
\* chain, each observed the same patch.
SeedPatch == [edge_type |-> "SIMILAR_TO", from_id |-> "A", to_id |-> "B"]

RECURSIVE SeedEdge(_)
SeedEdge(chain) ==
    IF chain = <<>> THEN None
    ELSE LET n == Len(chain)
             before == SeedEdge(SubSeq(chain, 1, n - 1))
         IN  Materialize(SeedPatch, chain[n], before,
                         CreatedKind(SeedPatch.from_id, SeedPatch.to_id, chain[n], before),
                         [v |-> n], n)

SeedChains ==
    {c \in SeqsUpTo(Catalog, MaxSeedAnchors) : Cardinality(Range(c)) = Len(c)}

\* Candidates of a job enqueued by a query on an empty neighbourhood: the
\* other ingested products.
OtherProducts(anchor_id) == SelectSeq(CatalogOrder, LAMBDA c : c # anchor_id)

JobOf(anchor_id, job_id) ==
    [anchor_id |-> anchor_id, candidate_ids |-> OtherProducts(anchor_id),
     job_id |-> job_id]

InitJobs ==
    /\ products = Catalog
    /\ \E chain \in SeedChains :
          /\ edges = IF chain = <<>> THEN <<>> ELSE upsert_edge(<<>>, SeedEdge(chain))
          /\ writers = IF chain = <<>> THEN <<>>
                       ELSE (SeedEdge(chain).edge_id :> Range(chain))
          /\ clock = Len(chain) + 1
          /\ \E anchors \in [1 .. MaxJobs -> Catalog] :
                queue = [i \in 1 .. MaxJobs |-> JobOf(anchors[i], Len(chain) + i)]
          /\ nextJobId = Len(chain) + MaxJobs + 1
    /\ worker = [w \in Workers |-> IdleWorker]
    /\ stale = [w \in Workers |-> FALSE]
    /\ q = IdleQuery
    /\ config = [openai_api_key |-> TRUE, allow_endpoint_reinforcement |-> TRUE]
    /\ pure = NoPure

SpecJobs == InitJobs /\ [][WorkerNext]_vars

\* ------------------------------------------- a query while a job is running

\* The job an earlier query for "A" with top_k = 2 enqueued on the empty graph.
RaceJob == [anchor_id |-> "A", candidate_ids |-> <<"AB", "B">>, job_id |-> 0]

InitRace ==
    /\ products = Catalog
    /\ edges = <<>>
    /\ queue = <<RaceJob>>
    /\ worker = [w \in Workers |-> IdleWorker]
    /\ clock = 1
    /\ nextJobId = 1
    /\ writers = <<>>
    /\ stale = [w \in Workers |-> FALSE]
    /\ q = IdleQuery
    /\ config \in [openai_api_key : {TRUE}, allow_endpoint_reinforcement : BOOLEAN]
    /\ pure = NoPure

\* The requests of the race: inference not skipped, for the anchor of the job.
RaceQueryStart ==
    /\ QueryStart
    /\ q'.product_id = RaceJob.anchor_id
    /\ ~q'.skip_inference

NextRace ==
    \/ RaceQueryStart
    \/ FetchAnchor
    \/ IncrementQueryCount
    \/ IncrementQueryCountRaises
    \/ GraphNeighbors
    \/ VectorSearch
    \/ EnqueueInference
    \/ QueryEnd
    \/ WorkerNext

SpecRace == InitRace /\ [][NextRace]_vars

\* The request has read the graph and not yet filtered its candidates.
BetweenLookupAndFilter == q.pc \in {"vector_search", "enqueue_inference"}

\* The worker steps of executions in which no edge is written between the
\* graph lookup of a request and its filter.
QuietWorkerNext ==
    /\ WorkerNext
    /\ BetweenLookupAndFilter => edges' = edges

NextQuiet ==
    \/ RaceQueryStart
    \/ FetchAnchor
    \/ IncrementQueryCount
    \/ IncrementQueryCountRaises
    \/ GraphNeighbors
    \/ VectorSearch
    \/ EnqueueInference
    \/ QueryEnd
    \/ QuietWorkerNext

SpecQuiet == InitRace /\ [][NextQuiet]_vars

\* --------------------------------------------- jobs that cannot be served

\* Anchors and candidate lists of a job: ingested ids and the id "Z", which no
\* product has.
FaultAnchors == {"A", "Z"}

FaultCandidateLists == {<<>>, <<"Z">>, <<"AB", "B">>, <<"Z", "B">>}

InitFaults ==
    /\ products = Catalog
    /\ \E chain \in SeedChains :
          /\ edges = IF chain = <<>> THEN <<>> ELSE upsert_edge(<<>>, SeedEdge(chain))
          /\ writers = IF chain = <<>> THEN <<>>
                       ELSE (SeedEdge(chain).edge_id :> Range(chain))
          /\ clock = Len(chain) + 1
          /\ \E anchor_id \in FaultAnchors, candidate_ids \in FaultCandidateLists :
                queue = <<[anchor_id |-> anchor_id, candidate_ids |-> candidate_ids,
                           job_id |-> Len(chain) + 1]>>
          /\ nextJobId = Len(chain) + 2
    /\ worker = [w \in Workers |-> IdleWorker]
    /\ stale = [w \in Workers |-> FALSE]
    /\ q = IdleQuery
    /\ config = [openai_api_key |-> TRUE, allow_endpoint_reinforcement |-> TRUE]
    /\ pure = NoPure

SpecFaults == InitFaults /\ [][WorkerNext]_vars

\* ------------------------------------------------ a job that is abandoned

\* The lists of more than one patch a call returns here.
AbandonPatchLists == {l \in SeqsUpTo(Patch, MaxPatches + 1) : Len(l) = MaxPatches + 1}

\* llm_call span, the call returns several patches.
LLMCallReturnsSeveral(w) ==
    LET me == worker[w] IN
    /\ me.pc = "llm_call"
    /\ \E patches \in AbandonPatchLists :
          worker' = [worker EXCEPT ![w] =
              [me EXCEPT !.pc = "get_edge",
                         !.llm_calls = @ + 1,
                         !.patches = patches,
                         !.idx = 1]]
    /\ UNCHANGED <<products, edges, queue, clock, nextJobId, writers, stale, frontVars>>

\* Variant: the queue puts an abandoned job back.
Timeout_requeues(w) ==
    LET me == worker[w] IN
    /\ me.pc \in {"fetch_products", "llm_call", "get_edge", "materialize",
                  "upsert_edge", "mark_anchor_inferred", "done"}
    /\ worker' = [worker EXCEPT ![w] = [me EXCEPT !.pc = "raised", !.result = None]]
    /\ queue' = Append(queue, [anchor_id |-> me.anchor_id,
                               candidate_ids |-> me.candidate_ids,
                               job_id |-> me.job_id])
    /\ UNCHANGED <<products, edges, clock, nextJobId, writers, stale, frontVars>>

\* The job_timeout given at enqueue runs out: the queue framework raises its
\* timeout exception inside infer_edges, between two statements wherever the
\* job is, also after _mark_anchor_inferred and before the return.  The job
\* has failed and is not run again.  The record keeps the job's locals to tell
\* how far it came.
Timeout(w) ==
    LET me == worker[w] IN
    /\ me.pc \in {"fetch_products", "llm_call", "get_edge", "materialize",
                  "upsert_edge", "mark_anchor_inferred", "done"}
    /\ worker' = [worker EXCEPT ![w] = [me EXCEPT !.pc = "raised", !.result = None]]
    /\ UNCHANGED <<products, edges, queue, clock, nextJobId, writers, stale, frontVars>>

AbandonAnchors == {"A", "AB"}

InitAbandon ==
    /\ products = Catalog
    /\ \E chain \in SeedChains :
          /\ edges = IF chain = <<>> THEN <<>> ELSE upsert_edge(<<>>, SeedEdge(chain))
          /\ writers = IF chain = <<>> THEN <<>>
                       ELSE (SeedEdge(chain).edge_id :> Range(chain))
          /\ clock = Len(chain) + 1
          /\ \E anchor_id \in AbandonAnchors :
                queue = <<JobOf(anchor_id, Len(chain) + 1)>>
          /\ nextJobId = Len(chain) + 2
    /\ worker = [w \in Workers |-> IdleWorker]
    /\ stale = [w \in Workers |-> FALSE]
    /\ q = IdleQuery
    /\ config = [openai_api_key |-> TRUE, allow_endpoint_reinforcement |-> TRUE]
    /\ pure = NoPure

NextAbandon ==
    \E w \in Workers :
        \/ Dequeue(w)
        \/ FetchProducts(w)
        \/ LLMCallFails(w)
        \/ LLMCallReturns(w)
        \/ LLMCallReturnsSeveral(w)
        \/ GetEdge(w)
        \/ MaterializeStep(w)
        \/ UpsertEdge(w)
        \/ MarkAnchorInferred(w)
        \/ Timeout(w)
        \/ JobReturn(w)

SpecAbandon == InitAbandon /\ [][NextAbandon]_vars

\* ------------------------------------ patches that name unknown products

\* Patches with an endpoint that is no ingested product: the collaborator's
\* output is checked against the patch schema, not against the store.
UnknownIdPatches ==
    {p \in [edge_type : EdgeTypes, from_id : Ids, to_id : Ids] :
        p.from_id \notin Catalog \/ p.to_id \notin Catalog}

\* llm_call span, the call returns a patch that names an unknown product.
LLMCallReturnsUnknownId(w) ==
    LET me == worker[w] IN
    /\ me.pc = "llm_call"
    /\ \E patch \in UnknownIdPatches :
          worker' = [worker EXCEPT ![w] =
              [me EXCEPT !.pc = "get_edge",
                         !.llm_calls = @ + 1,
                         !.patches = <<patch>>,
                         !.idx = 1]]
    /\ UNCHANGED <<products, edges, queue, clock, nextJobId, writers, stale, frontVars>>

NextUnknownIds ==
    \E w \in Workers :
        \/ Dequeue(w)
        \/ FetchProducts(w)
        \/ LLMCallFails(w)
        \/ LLMCallReturns(w)
        \/ LLMCallReturnsUnknownId(w)
        \/ GetEdge(w)
        \/ MaterializeStep(w)
        \/ UpsertEdge(w)
        \/ MarkAnchorInferred(w)
        \/ StepRaises(w)
        \/ JobReturn(w)

SpecUnknownIds == InitAbandon /\ [][NextUnknownIds]_vars

\* ------------------------------------------ pure functions on their own

MaxExistingAnchors == 2

\* A stored edge for patch whose anchors_seen is seen, with or without the
\* provenance fields.
ExistingEdge(patch, seen, with_provenance) ==
    LET ab == canonical_pair(patch.from_id, patch.to_id)
    IN  [edge_id |-> compute_edge_id(patch.edge_type, ab[1], ab[2]),
         edge_type |-> patch.edge_type,
         from_id |-> ab[1],
         to_id |-> ab[2],
         anchors_seen |-> seen,
         confidence_0_to_1 |-> confidence_from_anchors(Len(seen)),
         status |-> StatusOf(confidence_from_anchors(Len(seen))),
         created_at |-> 0,
         last_reinforced_at |-> 0]
        @@ (IF with_provenance
            THEN [created_kind |-> "candidate_candidate",
                  created_under_anchor_id |-> "Z",
                  created_in_job_id |-> 0]
            ELSE <<>>)

ExistingEdges(patch) ==
    {None} \cup {ExistingEdge(patch, seen, with_provenance) :
                    seen \in SeqsUpTo(Catalog, MaxExistingAnchors),
                    with_provenance \in BOOLEAN}

InitPure ==
    /\ products = Catalog
    /\ edges = <<>>
    /\ queue = <<>>
    /\ worker = [w \in Workers |-> IdleWorker]
    /\ clock = 1
    /\ nextJobId = 1
    /\ writers = <<>>
    /\ stale = [w \in Workers |-> FALSE]
    /\ q = IdleQuery
    /\ config = [openai_api_key |-> TRUE, allow_endpoint_reinforcement |-> TRUE]
    /\ \E patch \in Patch, anchor_id \in Catalog :
          \E existing \in ExistingEdges(patch) :
              pure = [step |-> "input", patch |-> patch, anchor_id |-> anchor_id,
                      existing |-> existing, out |-> <<>>]

\* canonical_pair and compute_edge_id on the endpoints in both orders.
PureEdgeIds ==
    LET t == pure.patch.edge_type
        a == pure.patch.from_id
        b == pure.patch.to_id
    IN
    /\ pure.step = "input"
    /\ pure' = [pure EXCEPT !.step = "edge_ids",
                            !.out = [pair_ab |-> canonical_pair(a, b),
                                     pair_ba |-> canonical_pair(b, a),
                                     id_ab |-> compute_edge_id(t, a, b),
                                     id_ba |-> compute_edge_id(t, b, a)]]
    /\ UNCHANGED <<products, edges, queue, worker, clock, nextJobId, writers, stale,
                   q, config>>

\* materialize(patch, anchor_id, existing)
PureMaterialize ==
    LET ab == canonical_pair(pure.patch.from_id, pure.patch.to_id)
        e1 == Materialize(pure.patch, pure.anchor_id, pure.existing,
                          CreatedKind(ab[1], ab[2], pure.anchor_id, pure.existing),
                          [v |-> 1], 1)
    IN
    /\ pure.step = "input"
    /\ pure' = [pure EXCEPT !.step = "materialized", !.out = <<e1>>]
    /\ UNCHANGED <<products, edges, queue, worker, clock, nextJobId, writers, stale,
                   q, config>>

\* materialize(patch, anchor_id, e1) on the result e1 of the first call
PureMaterializeAgain ==
    LET ab == canonical_pair(pure.patch.from_id, pure.patch.to_id)
        e1 == pure.out[1]
        e2 == Materialize(pure.patch, pure.anchor_id, e1,
                          CreatedKind(ab[1], ab[2], pure.anchor_id, e1),
                          [v |-> 2], 2)
    IN
    /\ pure.step = "materialized"
    /\ pure' = [pure EXCEPT !.step = "rematerialized", !.out = <<e1, e2>>]
    /\ UNCHANGED <<products, edges, queue, worker, clock, nextJobId, writers, stale,
                   q, config>>

\* The created_kind and job_id a caller may pass.
CreatedKindArgs == {None, [v |-> "anchor_candidate"], [v |-> "candidate_candidate"]}

JobIdArgs == {None, [v |-> 1]}

\* materialize(patch, anchor_id, existing, created_kind, job_id) with any
\* created_kind and job_id
PureMaterializeWithArgs ==
    /\ pure.step = "input"
    /\ \E created_kind \in CreatedKindArgs, job_id \in JobIdArgs :
          pure' = [step |-> "materialized_with_args", patch |-> pure.patch,
                   anchor_id |-> pure.anchor_id, existing |-> pure.existing,
                   created_kind |-> created_kind, job_id |-> job_id,
                   out |-> <<Materialize(pure.patch, pure.anchor_id, pure.existing,
                                         created_kind, job_id, 1)>>]
    /\ UNCHANGED <<products, edges, queue, worker, clock, nextJobId, writers, stale,
                   q, config>>

\* materialize under anchor x on the result of materialize under anchor y.
MaterializeTwice(patch, existing, x, y) ==
    LET ab == canonical_pair(patch.from_id, patch.to_id)
        e1 == Materialize(patch, x, existing,
                          CreatedKind(ab[1], ab[2], x, existing), [v |-> 1], 1)
    IN  Materialize(patch, y, e1, CreatedKind(ab[1], ab[2], y, e1), [v |-> 2], 2)

\* The two anchors in both orders: under anchor_id then other, and under other
\* then anchor_id.
PureMaterializeBothOrders ==
    /\ pure.step = "input"
    /\ \E other \in Catalog :
          pure' = [step |-> "both_orders", patch |-> pure.patch,
                   anchor_id |-> pure.anchor_id, existing |-> pure.existing,
                   other |-> other,
                   out |-> <<MaterializeTwice(pure.patch, pure.existing,
                                              pure.anchor_id, other),
                             MaterializeTwice(pure.patch, pure.existing,
                                              other, pure.anchor_id)>>]
    /\ UNCHANGED <<products, edges, queue, worker, clock, nextJobId, writers, stale,
                   q, config>>

PureNext ==
    \/ PureEdgeIds
    \/ PureMaterialize
    \/ PureMaterializeAgain
    \/ PureMaterializeWithArgs
    \/ PureMaterializeBothOrders

SpecPure == InitPure /\ [][PureNext]_vars

\* ----------------------------------------- the confidence on its own

\* Numbers of anchors, zero and negative ones included.
AnchorCounts == (0 - MaxNonPositive) .. MaxAnchorCount

InitConfidence ==
    /\ products = Catalog
    /\ edges = <<>>
    /\ queue = <<>>
    /\ worker = [w \in Workers |-> IdleWorker]
    /\ clock = 1
    /\ nextJobId = 1
    /\ writers = <<>>
    /\ stale = [w \in Workers |-> FALSE]
    /\ q = IdleQuery
    /\ config = [openai_api_key |-> TRUE, allow_endpoint_reinforcement |-> TRUE]
    /\ \E m \in AnchorCounts, n \in AnchorCounts :
          pure = [step |-> "counts", m |-> m, n |-> n, out |-> <<>>]

\* confidence_from_anchors(m) and confidence_from_anchors(n), default constants
ConfidenceOfBoth ==
    /\ pure.step = "counts"
    /\ pure' = [pure EXCEPT !.step = "confidence",
                            !.out = <<confidence_from_anchors(pure.m),
                                      confidence_from_anchors(pure.n)>>]
    /\ UNCHANGED <<products, edges, queue, worker, clock, nextJobId, writers, stale,
                   q, config>>

\* confidence_from_anchors(n) and the status materialize derives from it
ConfidenceAndStatus ==
    /\ pure.step = "counts"
    /\ pure' = [pure EXCEPT !.step = "status",
                            !.out = <<confidence_from_anchors(pure.n),
                                      StatusOf(confidence_from_anchors(pure.n))>>]
    /\ UNCHANGED <<products, edges, queue, worker, clock, nextJobId, writers, stale,
                   q, config>>

ConfidenceNext ==
    \/ ConfidenceOfBoth
    \/ ConfidenceAndStatus

SpecConfidence == InitConfidence /\ [][ConfidenceNext]_vars

\* ------------------------------------- graph reads on their own

MaxStoreTime == 2

StoreEdgeTypes == {"SIMILAR_TO", "COMPLEMENTS"}

\* The anchor of the reads and the products it may be connected to.
StoreAnchor == "A"

StoreCandidates == {"AB", "B"}

\* anchors_seen of a stored edge that n distinct anchors have reinforced.
StoreAnchorPool == <<"A", "AB", "B", "C", "Z">>

StoreAnchorCounts == {1, 3, Len(StoreAnchorPool)}

\* The edge of type t between a and b as jobs leave it after n anchors, last
\* reinforced at time at.
StoredEdge(t, a, b, n, at) ==
    [ExistingEdge([edge_type |-> t, from_id |-> a, to_id |-> b],
                  SubSeq(StoreAnchorPool, 1, n), TRUE)
        EXCEPT !.last_reinforced_at = at]

StoreSlots == StoreEdgeTypes \X StoreCandidates

\* Per slot: no edge (count 0) or an edge with a count and a time.
StoreChoices ==
    [StoreSlots -> {<<0, 0>>} \cup (StoreAnchorCounts \X (1 .. MaxStoreTime))]

RECURSIVE StoreOf(_, _)
StoreOf(choice, slots) ==
    IF slots = {} THEN <<>>
    ELSE LET slot == CHOOSE x \in slots : TRUE
             rest == StoreOf(choice, slots \ {slot})
         IN  IF choice[slot][1] = 0 THEN rest
             ELSE upsert_edge(rest, StoredEdge(slot[1], StoreAnchor, slot[2],
                                               choice[slot][1], choice[slot][2]))

InitStore ==
    /\ products = Catalog
    /\ \E choice \in StoreChoices, elsewhere \in BOOLEAN :
          edges = IF elsewhere
                  THEN upsert_edge(StoreOf(choice, StoreSlots),
                                   StoredEdge("SIMILAR_TO", "AB", "B", 1, 1))
                  ELSE StoreOf(choice, StoreSlots)
    /\ queue = <<>>
    /\ worker = [w \in Workers |-> IdleWorker]
    /\ clock = MaxStoreTime + 1
    /\ nextJobId = 1
    /\ writers = <<>>
    /\ stale = [w \in Workers |-> FALSE]
    /\ q = IdleQuery
    /\ config \in [openai_api_key : {TRUE}, allow_endpoint_reinforcement : BOOLEAN]
    /\ pure = [step |-> "store", anchor_id |-> StoreAnchor, limit |-> 0,
               candidate_ids |-> <<>>, out |-> <<>>]

\* get_neighbors(anchor_id, limit) on the store
StoreGetNeighbors ==
    /\ pure.step = "store"
    /\ \E limit \in 1 .. MaxTopK :
          pure' = [pure EXCEPT !.step = "neighbors",
                               !.limit = limit,
                               !.out = get_neighbors(edges, pure.anchor_id, limit)]
    /\ UNCHANGED <<products, edges, queue, worker, clock, nextJobId, writers, stale,
                   q, config>>

\* The candidate filter of query on a list of vector candidates
StoreNewCandidates ==
    /\ pure.step = "store"
    /\ \E candidate_ids \in SimilaritySearches(MaxTopK) :
          LET all_candidate_ids == SelectSeq(candidate_ids, LAMBDA c : c # pure.anchor_id)
          IN  pure' = [pure EXCEPT !.step = "filtered",
                                   !.candidate_ids = all_candidate_ids,
                                   !.out = NewCandidates(edges, config, pure.anchor_id,
                                                         all_candidate_ids)]
    /\ UNCHANGED <<products, edges, queue, worker, clock, nextJobId, writers, stale,
                   q, config>>

StoreNext ==
    \/ StoreGetNeighbors
    \/ StoreNewCandidates

SpecStore == InitStore /\ [][StoreNext]_vars

\* ------------------------------------------- product views on their own

\* The fields of LLMProductView.
ViewKeys == {"id", "description", "title", "brand", "category", "tags", "price",
             "currency"}

\* The map projection of Neo4jContext.fetch_product.
AnchorFetchKeys == ViewKeys \cup {"embedding", "last_inference_at"}

\* Properties of a stored Product node that no view has.
HiddenKeys == {"embedding", "last_inference_at", "image_url", "metadata",
               "embed_text", "total_query_count", "inference_count"}

\* Values of the properties; None is a property the node does not have.
VisibleParts ==
    [id : {[v |-> "A"]},
     description : {None, [v |-> ""], [v |-> "d"]},
     title : {None, [v |-> "t"]},
     brand : {None, [v |-> "b"]},
     category : {[v |-> "c"]},
     tags : {None, [v |-> <<>>], [v |-> <<"x">>]},
     price : {None, [v |-> 10]},
     currency : {[v |-> "USD"]}]

HiddenValue(k) ==
    IF k \in {"total_query_count", "inference_count", "last_inference_at"}
    THEN [v |-> 1] ELSE [v |-> k]

HiddenParts == [HiddenKeys -> BOOLEAN]

StoredProduct(visible, hidden) ==
    visible @@ [k \in HiddenKeys |-> IF hidden[k] THEN HiddenValue(k) ELSE None]

\* Neo4jContext.fetch_product: id, title, description, category, brand, tags,
\* price, currency, embedding, last_inference_at of the node.
fetch_product(node) == Restrict(node, AnchorFetchKeys)

\* One record of Neo4jContext.fetch_products: the same without embedding and
\* last_inference_at.
fetch_products_record(node) == Restrict(node, ViewKeys)

\* not product.get(key), for the string properties
Falsy(x) == x = None \/ x = [v |-> ""]

ValueError == [raised |-> "ValueError"]

\* Variant: the view is the fetched record.
project_fetched_record(product) ==
    IF Falsy(product.id) \/ Falsy(product.description)
    THEN ValueError
    ELSE product

\* views.project followed by LLMProductView.to_dict
project(product) ==
    IF Falsy(product.id) \/ Falsy(product.description)
    THEN ValueError
    ELSE [id |-> product.id,
          description |-> product.description,
          title |-> product.title,
          brand |-> product.brand,
          category |-> product.category,
          tags |-> IF product.tags = None THEN [v |-> <<>>] ELSE product.tags,
          price |-> product.price,
          currency |-> product.currency]

\* Two stored products: the second is the first with one hidden property
\* changed, with all of them changed, or with another title.
InitViews ==
    /\ products = Catalog
    /\ edges = <<>>
    /\ queue = <<>>
    /\ worker = [w \in Workers |-> IdleWorker]
    /\ clock = 1
    /\ nextJobId = 1
    /\ writers = <<>>
    /\ stale = [w \in Workers |-> FALSE]
    /\ q = IdleQuery
    /\ config = [openai_api_key |-> TRUE, allow_endpoint_reinforcement |-> TRUE]
    /\ \E visible \in VisibleParts, hidden \in HiddenParts :
          \E other \in {[hidden EXCEPT ![k] = ~@] : k \in HiddenKeys}
                          \cup {[k \in HiddenKeys |-> ~hidden[k]]} :
             \E title \in {visible.title, None, [v |-> "t"]} :
                pure = [step |-> "stored",
                        first |-> StoredProduct(visible, hidden),
                        second |-> StoredProduct([visible EXCEPT !.title = title], other),
                        out |-> <<>>]

\* The anchor views of two jobs: project(fetch_product(anchor_id)).
ViewsOfAnchors ==
    /\ pure.step = "stored"
    /\ pure' = [pure EXCEPT !.step = "anchor_views",
                            !.out = <<project(fetch_product(pure.first)),
                                      project(fetch_product(pure.second))>>]
    /\ UNCHANGED <<products, edges, queue, worker, clock, nextJobId, writers, stale,
                   q, config>>

\* The candidate views of two jobs: project_many(fetch_products(candidate_ids)).
ViewsOfCandidates ==
    /\ pure.step = "stored"
    /\ pure' = [pure EXCEPT !.step = "candidate_views",
                            !.out = <<project(fetch_products_record(pure.first)),
                                      project(fetch_products_record(pure.second))>>]
    /\ UNCHANGED <<products, edges, queue, worker, clock, nextJobId, writers, stale,
                   q, config>>

ViewsNext ==
    \/ ViewsOfAnchors
    \/ ViewsOfCandidates

SpecViews == InitViews /\ [][ViewsNext]_vars

\* ------------------------------------------------------------------ claims

AnchorSet(e) == Range(e.anchors_seen)

\* The step is worker w's upsert_edge, which has returned.
UpsertStep(w) ==
    /\ worker[w].pc = "upsert_edge"
    /\ worker'[w].pc \in {"get_edge", "mark_anchor_inferred"}

\* What worker w read with get_edge is what the store holds now.
FreshRead(w) == worker[w].existing = get_edge(edges, worker[w].edge_id)

\* Worker w has upserted the edge of its locals and not yet read the next one.
JustUpserted(w) ==
    /\ worker[w].pc \in {"get_edge", "mark_anchor_inferred"}
    /\ worker[w].idx > 1

\* C1 as claimed: no upsert_edge, in any interleaving of jobs, removes an
\* anchor from a stored anchors_seen.
C1_AnchorsNeverLost ==
    [][\A id \in DOMAIN edges : AnchorSet(edges[id]) \subseteq AnchorSet(edges'[id])]_vars

\* C1 amended: an upsert_edge of a job whose get_edge returned the edge as it is
\* stored when the upsert runs (no other upsert of the edge in between) leaves
\* every stored anchors_seen a superset of what it was.
C1_FreshUpsertKeepsAnchors ==
    [][\A w \in Workers :
          (UpsertStep(w) /\ FreshRead(w)) =>
              \A id \in DOMAIN edges : AnchorSet(edges[id]) \subseteq AnchorSet(edges'[id])]_vars

\* C1 witness: a job has reinforced an existing edge with a new anchor, its
\* read being current at the upsert.
C1_FreshReinforcement ==
    \E w \in Workers :
        /\ JustUpserted(w)
        /\ ~stale[w]
        /\ ~IsNone(worker[w].existing)
        /\ ~Contains(worker[w].existing.anchors_seen, worker[w].anchor_id)
        /\ edges[worker[w].edge_id].anchors_seen
              = Append(worker[w].existing.anchors_seen, worker[w].anchor_id)

\* C2: an upsert_edge stores the anchors its job read plus the job's own anchor,
\* whatever the store holds when it runs: an anchor that another job stored
\* between the job's get_edge and its upsert_edge is overwritten.
C2_UpsertStoresWhatWasRead ==
    [][\A w \in Workers :
          UpsertStep(w) =>
              AnchorSet(edges'[worker[w].edge_id])
                  = (IF IsNone(worker[w].existing) THEN {}
                     ELSE AnchorSet(worker[w].existing)) \cup {worker[w].anchor_id}]_vars

\* C2 witness: two jobs with different anchors have both upserted the edge and
\* the stored anchors_seen holds only one of the two anchors.
C2_LostUpdate ==
    \E id \in DOMAIN edges :
        \E x \in writers[id], y \in writers[id] :
            /\ x # y
            /\ x \notin AnchorSet(edges[id])
            /\ y \in AnchorSet(edges[id])

CreationFields(e) ==
    Restrict(e, {"created_at", "created_kind", "created_under_anchor_id",
                 "created_in_job_id"})

\* C3: created_at and the provenance fields of a stored edge never change, in
\* any interleaving of jobs.
C3_CreationFieldsImmutable ==
    [][\A id \in DOMAIN edges : CreationFields(edges'[id]) = CreationFields(edges[id])]_vars

\* C4: materializing the same patch under the same anchor a second time, on the
\* result of the first, keeps anchors_seen (elements and order), confidence and
\* status.
C4_MaterializeIdempotent ==
    pure.step = "rematerialized" =>
        /\ pure.out[2].anchors_seen = pure.out[1].anchors_seen
        /\ pure.out[2].confidence_0_to_1 = pure.out[1].confidence_0_to_1
        /\ pure.out[2].status = pure.out[1].status

\* C4 witness: the first call appended the anchor to an existing edge.
C4_SecondCallAfterAppend ==
    /\ pure.step = "rematerialized"
    /\ ~IsNone(pure.existing)
    /\ pure.existing.anchors_seen # <<>>
    /\ ~Contains(pure.existing.anchors_seen, pure.anchor_id)
    /\ pure.out[1].anchors_seen = Append(pure.existing.anchors_seen, pure.anchor_id)

\* C5 as claimed: compute_edge_id(t, a, b) = compute_edge_id(t, b, a) and
\* canonical_pair(a, b) = canonical_pair(b, a).
C5_EdgeIdSwapInvariant ==
    pure.step = "edge_ids" =>
        /\ pure.out.id_ab = pure.out.id_ba
        /\ pure.out.pair_ab = pure.out.pair_ba

\* C5 amended: canonical_pair(a, b) = canonical_pair(b, a), and compute_edge_id
\* applied to the canonical pair gives the same id for both orders.
C5_CanonicalEdgeIdSwapInvariant ==
    pure.step = "edge_ids" =>
        /\ pure.out.pair_ab = pure.out.pair_ba
        /\ compute_edge_id(pure.patch.edge_type, pure.out.pair_ab[1], pure.out.pair_ab[2])
              = compute_edge_id(pure.patch.edge_type, pure.out.pair_ba[1],
                                pure.out.pair_ba[2])
        /\ StrLeq(pure.out.pair_ab[1], pure.out.pair_ab[2])
        /\ {pure.out.pair_ab[1], pure.out.pair_ab[2]}
              = {pure.patch.from_id, pure.patch.to_id}

\* C5 witness: ids computed for endpoints given in descending order.
C5_SwappedEndpoints ==
    /\ pure.step = "edge_ids"
    /\ pure.patch.from_id # pure.patch.to_id
    /\ ~StrLeq(pure.patch.from_id, pure.patch.to_id)

\* The edge id infer_edges reads with get_edge for a patch.
TaskEdgeId(patch) ==
    LET ab == canonical_pair(patch.from_id, patch.to_id)
    IN  compute_edge_id(patch.edge_type, ab[1], ab[2])

SwappedPatch(patch) == [patch EXCEPT !.from_id = patch.to_id, !.to_id = patch.from_id]

\* C6: the record a job passes to upsert_edge has from_id <= to_id, carries the
\* edge id of its type and endpoints, and that id is the one the job read with
\* get_edge, which is also the id of the patch with its endpoints swapped.
C6_UpsertedEdgeCanonical ==
    \A w \in Workers :
        worker[w].pc = "upsert_edge" =>
            LET e == worker[w].full_edge
                patch == worker[w].patches[worker[w].idx]
            IN  /\ StrLeq(e.from_id, e.to_id)
                /\ e.edge_id = compute_edge_id(e.edge_type, e.from_id, e.to_id)
                /\ e.edge_id = worker[w].edge_id
                /\ {e.from_id, e.to_id} = {patch.from_id, patch.to_id}
                /\ TaskEdgeId(SwappedPatch(patch)) = worker[w].edge_id

\* C6 witness: a job is about to upsert a patch that named its endpoints in
\* descending order.
C6_DescendingPatchAtUpsert ==
    \E w \in Workers :
        /\ worker[w].pc = "upsert_edge"
        /\ ~StrLeq(worker[w].patches[worker[w].idx].from_id,
                   worker[w].patches[worker[w].idx].to_id)

\* C7: every stored edge has the confidence of its anchor count, and is ACTIVE
\* exactly when that confidence is at least 0.7, else PROPOSED.
C7_StoredConfidenceAndStatus ==
    \A id \in DOMAIN edges :
        /\ edges[id].confidence_0_to_1
              = confidence_from_anchors(Len(edges[id].anchors_seen))
        /\ edges[id].status \in {"ACTIVE", "PROPOSED"}
        /\ edges[id].status = "ACTIVE" <=> edges[id].confidence_0_to_1 >= ACTIVE_THRESHOLD_MILLI

\* C7 witness: an edge that three or more anchors have reinforced is stored
\* ACTIVE.
C7_ActiveEdgeStored ==
    \E id \in DOMAIN edges :
        /\ edges[id].status = "ACTIVE"
        /\ Len(edges[id].anchors_seen) >= 3

StatusAndConfidenceKept(id) ==
    edges[id].status = "ACTIVE" =>
        /\ edges'[id].status = "ACTIVE"
        /\ edges'[id].confidence_0_to_1 >= edges[id].confidence_0_to_1

\* C8 as claimed: once an edge is stored ACTIVE no upsert_edge, in any
\* interleaving of jobs, stores it PROPOSED or with a lower confidence.
C8_NeverDowngraded ==
    [][\A id \in DOMAIN edges : StatusAndConfidenceKept(id)]_vars

\* C8 amended: an upsert_edge of a job whose get_edge returned the edge as it is
\* stored when the upsert runs keeps an ACTIVE edge ACTIVE and does not lower its
\* confidence.
C8_FreshUpsertNeverDowngrades ==
    [][\A w \in Workers :
          (UpsertStep(w) /\ FreshRead(w)) =>
              \A id \in DOMAIN edges : StatusAndConfidenceKept(id)]_vars

\* C8 witness: a job has upserted an edge it read as ACTIVE, its read being
\* current at the upsert, and the edge is stored ACTIVE.
C8_ActiveEdgeReinforced ==
    \E w \in Workers :
        /\ JustUpserted(w)
        /\ ~stale[w]
        /\ ~IsNone(worker[w].existing)
        /\ worker[w].existing.status = "ACTIVE"
        /\ edges[worker[w].edge_id].status = "ACTIVE"

Sources(recommendations) == [i \in DOMAIN recommendations |-> recommendations[i].source]

\* C9: a returned result holds from_graph + from_vector <= top_k
\* recommendations, the graph entries before the vector entries; the vector
\* search ran only when from_graph < top_k; and when it returned all of the
\* top_k + from_graph + 1 distinct products asked for, the result holds exactly
\* top_k recommendations.
C9_ResultSizeAndOrder ==
    q.pc = "return" =>
        /\ Len(q.recommendations) = q.from_graph + q.from_vector
        /\ Len(q.recommendations) <= q.top_k
        /\ \A i \in DOMAIN q.recommendations :
              q.recommendations[i].source = IF i <= q.from_graph THEN "graph" ELSE "vector"
        /\ q.vector_searched => q.from_graph < q.top_k
        /\ ~q.vector_searched => q.from_vector = 0
        /\ (/\ q.vector_searched
            /\ Len(q.search_results) = q.top_k + q.from_graph + 1
            /\ Cardinality(Range(q.search_results)) = Len(q.search_results))
              => Len(q.recommendations) = q.top_k

\* C9 witness: a result mixing graph and vector entries is returned after a
\* vector search that returned top_k + from_graph + 1 products.
C9_MixedResultAfterFullSearch ==
    /\ q.pc = "return"
    /\ q.from_graph >= 1
    /\ q.from_vector >= 1
    /\ q.vector_searched
    /\ Len(q.search_results) = q.top_k + q.from_graph + 1
    /\ Sources(q.recommendations) = <<"graph", "vector">>

\* C10: no recommendation of a returned result is the anchor product, in any
\* state of the graph that jobs can produce.
C10_AnchorNotRecommended ==
    q.pc = "return" =>
        \A i \in DOMAIN q.recommendations :
            q.recommendations[i].product_id # q.product_id

\* The stored edges between anchor_id and candidate_id.
EdgesBetween(store, anchor_id, candidate_id) ==
    {id \in DOMAIN store :
        {store[id].from_id, store[id].to_id} = {anchor_id, candidate_id}}

Neighbours(store, anchor_id) ==
    {c \in Ids : EdgesBetween(store, anchor_id, c) # {}}

\* C11: get_neighbors returns at most limit entries with distinct candidate
\* ids, each with the properties of an edge between anchor and candidate that
\* no other edge between the two beats on confidence and then recency; the
\* entries are in that order, and a candidate left out by the limit does not
\* sort before a returned one.
C11_NeighboursBestAndOrdered ==
    pure.step = "neighbors" =>
        LET out == pure.out
            returned == {out[i].candidate_id : i \in DOMAIN out}
        IN  /\ Len(out) = Min(pure.limit, Cardinality(Neighbours(edges, pure.anchor_id)))
            /\ Cardinality(returned) = Len(out)
            /\ \A i \in DOMAIN out :
                  /\ out[i].edge_id \in EdgesBetween(edges, pure.anchor_id,
                                                      out[i].candidate_id)
                  /\ Restrict(out[i], DOMAIN edges[out[i].edge_id] \ {"from_id", "to_id"})
                        = Restrict(edges[out[i].edge_id],
                                   DOMAIN edges[out[i].edge_id] \ {"from_id", "to_id"})
                  /\ \A id \in EdgesBetween(edges, pure.anchor_id, out[i].candidate_id) :
                        /\ edges[id].confidence_0_to_1 <= out[i].confidence_0_to_1
                        /\ edges[id].confidence_0_to_1 = out[i].confidence_0_to_1
                              => edges[id].last_reinforced_at <= out[i].last_reinforced_at
            /\ \A i \in DOMAIN out, j \in DOMAIN out :
                  i < j =>
                      \/ out[i].confidence_0_to_1 > out[j].confidence_0_to_1
                      \/ /\ out[i].confidence_0_to_1 = out[j].confidence_0_to_1
                         /\ out[i].last_reinforced_at >= out[j].last_reinforced_at
            /\ \A c \in Neighbours(edges, pure.anchor_id) \ returned :
                  \A id \in EdgesBetween(edges, pure.anchor_id, c), i \in DOMAIN out :
                      \/ edges[id].confidence_0_to_1 < out[i].confidence_0_to_1
                      \/ /\ edges[id].confidence_0_to_1 = out[i].confidence_0_to_1
                         /\ edges[id].last_reinforced_at <= out[i].last_reinforced_at

\* C11 witness: two candidates, one of them with edges of two types of
\* different confidence, and a limit that leaves one candidate out.
C11_TwoTypesAndLimit ==
    /\ pure.step = "neighbors"
    /\ Cardinality(Neighbours(edges, pure.anchor_id)) > pure.limit
    /\ Len(pure.out) = pure.limit
    /\ \E id \in EdgesBetween(edges, pure.anchor_id, pure.out[1].candidate_id) :
          edges[id].confidence_0_to_1 < pure.out[1].confidence_0_to_1

\* The candidate passes the filter as the claim words it.
OfferedForInference(store, gate, anchor_id, c) ==
    LET between == EdgesBetween(store, anchor_id, c)
    IN  IF gate
        THEN \/ between = {}
             \/ /\ \A id \in between :
                      Len(store[id].anchors_seen) < endpoint_reinforcement_threshold
                /\ \A id \in between :
                      store[id].confidence_0_to_1 < endpoint_reinforcement_max_confidence
        ELSE between = {}

\* C12: the candidate filter keeps, in their order, exactly the candidates
\* that have no edge with the anchor or, with the reinforcement gate enabled,
\* whose largest anchor count is below the threshold and whose largest
\* confidence is below the ceiling.
C12_FilterSelectsExactly ==
    pure.step = "filtered" =>
        pure.out = SelectSeq(pure.candidate_ids,
                       LAMBDA c : OfferedForInference(edges,
                                      config.allow_endpoint_reinforcement,
                                      pure.anchor_id, c))

\* C12 witness: with the gate enabled, of two connected candidates one is
\* offered again and the other is filtered out.
C12_OneKeptOneDropped ==
    /\ pure.step = "filtered"
    /\ config.allow_endpoint_reinforcement
    /\ Len(pure.candidate_ids) = 2
    /\ \A i \in DOMAIN pure.candidate_ids :
          EdgesBetween(edges, pure.anchor_id, pure.candidate_ids[i]) # {}
    /\ Len(pure.out) = 1

\* The step appends one job to the queue.
EnqueuesOne == Len(queue') = Len(queue) + 1 /\ SubSeq(queue', 1, Len(queue)) = queue

\* C13: a query with skip_inference or without an API key enqueues nothing and
\* returns "skipped" with no job id; in every result the job id is set exactly
\* when the status is "enqueued", which is exactly when the query appended one
\* job, for its anchor, with a non-empty list of candidates taken from the
\* vector recommendations; no other step of a query enqueues.
C13_SkippedAndEnqueued ==
    [][/\ (q.pc = "enqueue_inference" /\ q'.pc = "return") =>
            /\ (q.skip_inference \/ ~config.openai_api_key) =>
                  /\ q'.inference_status = "skipped"
                  /\ q'.job_id = None
                  /\ queue' = queue
            /\ q'.inference_status \in {"complete", "enqueued", "skipped"}
            /\ q'.job_id # None <=> q'.inference_status = "enqueued"
            /\ q'.inference_status = "enqueued" <=> EnqueuesOne
            /\ q'.inference_status # "enqueued" => queue' = queue
            /\ EnqueuesOne =>
                  LET job == queue'[Len(queue')]
                  IN  /\ job.anchor_id = q.product_id
                      /\ job.job_id = q'.job_id.v
                      /\ job.candidate_ids # <<>>
                      /\ Range(job.candidate_ids)
                            \subseteq Range(RecommendedIds(q'.recommendations, "vector"))
       /\ Len(queue') > Len(queue) => q.pc = "enqueue_inference"]_vars

\* C13 witness: a query has returned "enqueued" and its job is in the queue.
C13_EnqueuedResult ==
    /\ q.pc = "return"
    /\ q.inference_status = "enqueued"
    /\ q.job_id # None
    /\ \E i \in DOMAIN queue : queue[i].job_id = q.job_id.v

\* C14: a result with inference_status "complete" used no vector fallback
\* (from_vector = 0) and enqueued no job, also when jobs write edges while the
\* query runs.
C14_CompleteMeansNoFallback ==
    (q.pc = "return" /\ q.inference_status = "complete") =>
        /\ q.from_vector = 0
        /\ q.job_id = None
        /\ q.new_candidates = <<>>

\* C15: a request that has started comes to its end (the result, or the
\* exception of a failed call) by its own steps, also when no worker ever takes
\* a job, and no worker step changes the request or its result.
C15_QueryNeverWaits ==
    /\ (q.pc \notin {"idle", "return", "raised"}) ~> (q.pc \in {"return", "raised"})
    /\ [][WorkerNext => q' = q]_vars

\* C15 witness: a query has returned "enqueued" and its job is still in the
\* queue, no worker has taken it.
C15_ReturnedBeforeJobStarted ==
    /\ q.pc = "return"
    /\ q.inference_status = "enqueued"
    /\ queue # <<>>
    /\ queue[Len(queue)].job_id = q.job_id.v
    /\ \A w \in Workers : worker[w].pc = "idle"

\* C16: a query for an anchor that is not in the store ends at fetch_anchor
\* with "Product not found": it has counted no query, holds no graph or vector
\* result, has no job id, and none of its steps changes the store or the queue.
C16_MissingAnchorFailsClean ==
    /\ []((q.pc \notin {"idle", "fetch_anchor"} /\ q.product_id \notin products) =>
             /\ q.pc = "raised"
             /\ q.error = "Product not found"
             /\ ~q.query_counted
             /\ q.recommendations = <<>>
             /\ q.from_graph = 0
             /\ q.from_vector = 0
             /\ ~q.vector_searched
             /\ q.search_results = <<>>
             /\ q.new_candidates = <<>>
             /\ q.job_id = None)
    /\ [][(q' # q /\ q.pc # "idle" /\ q.product_id \notin products) =>
             UNCHANGED <<products, edges, queue, nextJobId>>]_vars

\* C16 witness: the query for "Z" has raised while a job is queued.
C16_NotFoundRaised ==
    /\ q.pc = "raised"
    /\ q.product_id = "Z"
    /\ q.error = "Product not found"
    /\ queue # <<>>

\* C17: a failed update of the query counter does not abort the request: no
\* request ends with the exception of the counter update.
C17_CounterFailureSwallowed ==
    ~(q.pc = "raised" /\ q.error = "query count update failed")

\* The job of worker w has nothing to work on: its anchor is not in the store,
\* or none of its candidates is.
NothingToInfer(w) ==
    /\ worker[w].pc # "idle"
    /\ \/ worker[w].anchor_id \notin products
       \/ \A i \in DOMAIN worker[w].candidate_ids : worker[w].candidate_ids[i] \notin products

\* The step is one of the job of worker w.
JobStep(w) == worker'[w] # worker[w]

\* C18: a job whose anchor is missing, or none of whose candidates resolves,
\* returns edges_created = 0 and edges_reinforced = 0, with an error for the
\* missing anchor; it has not called the inference collaborator, has taken up
\* no patch, has not marked the anchor, and none of its steps writes the store.
C18_NothingToInferNoEffect ==
    /\ [](\A w \in Workers : NothingToInfer(w) =>
             /\ worker[w].pc \in {"fetch_products", "done", "raised"}
             /\ worker[w].llm_calls = 0
             /\ worker[w].idx = 0
             /\ ~worker[w].anchor_inferred
             /\ worker[w].pc = "done" =>
                   /\ worker[w].result.anchor_id = worker[w].anchor_id
                   /\ worker[w].result.edges_created = 0
                   /\ worker[w].result.edges_reinforced = 0
                   /\ worker[w].anchor_id \notin products =>
                         /\ "error" \in DOMAIN worker[w].result
                         /\ worker[w].result.error = "Anchor product not found")
    /\ [][\A w \in Workers : (NothingToInfer(w) /\ JobStep(w)) =>
             UNCHANGED <<products, edges, writers, clock>>]_vars

\* C18 witness: the job for the missing anchor "Z" has returned its error
\* result on a store that holds an edge.
C18_MissingAnchorReturned ==
    \E w \in Workers :
        /\ worker[w].pc = "done"
        /\ worker[w].anchor_id = "Z"
        /\ "error" \in DOMAIN worker[w].result
        /\ edges # <<>>

\* The job of worker w has returned the error result of a failed inference call.
LLMFailureResult(w) ==
    /\ worker[w].pc = "done"
    /\ "error" \in DOMAIN worker[w].result
    /\ worker[w].result.error = "LLM inference failed"

\* C19: a job calls the inference collaborator at most once, and before it
\* takes up a patch, writes an edge or marks the anchor; when the call fails
\* the job returns an error result with edges_created = 0 and
\* edges_reinforced = 0, having taken up no patch and not marked the anchor,
\* and no step of a job up to the return of the call writes the store.
C19_OneCallBeforeAnyWrite ==
    /\ [](\A w \in Workers :
             /\ worker[w].llm_calls <= 1
             /\ (worker[w].idx > 0 \/ worker[w].anchor_inferred
                    \/ worker[w].pc \in {"get_edge", "materialize", "upsert_edge",
                                         "mark_anchor_inferred"})
                   => worker[w].llm_calls = 1
             /\ LLMFailureResult(w) =>
                   /\ worker[w].llm_calls = 1
                   /\ worker[w].result.anchor_id = worker[w].anchor_id
                   /\ worker[w].result.edges_created = 0
                   /\ worker[w].result.edges_reinforced = 0
                   /\ worker[w].patches = <<>>
                   /\ worker[w].idx = 0
                   /\ ~worker[w].anchor_inferred)
    /\ [][\A w \in Workers :
             (JobStep(w) /\ (worker'[w].idx = 0 \/ LLMFailureResult(w))) =>
                 UNCHANGED <<products, edges, writers>>]_vars

\* C19 witness: a job has returned the error result of a failed call after
\* its single call, on a store that holds an edge.
C19_FailedCallReturned ==
    \E w \in Workers :
        /\ LLMFailureResult(w)
        /\ worker[w].llm_calls = 1
        /\ edges # <<>>

\* C20: no exception leaves infer_edges: a job never ends by raising.
C20_NoExceptionEscapes ==
    \A w \in Workers : worker[w].pc # "raised"

\* The five counters of a job.
Counters(me) ==
    <<me.edges_created, me.edges_reinforced, me.edges_noop_existing,
      me.anchor_edges_created, me.candidate_edges_created>>

\* The patches worker w has written and counted.
Processed(w) ==
    IF worker[w].pc \in {"get_edge", "materialize", "upsert_edge"} THEN worker[w].idx - 1
    ELSE Len(worker[w].patches)

\* C21 as claimed, last part: the same patch under the same anchor is counted
\* as created once; no two jobs with one anchor both count the same edge as
\* created.
C21_SamePatchCreatedOnce ==
    \A w1 \in Workers, w2 \in Workers :
        (/\ w1 # w2
         /\ JustUpserted(w1)
         /\ JustUpserted(w2)
         /\ worker[w1].edge_id = worker[w2].edge_id
         /\ worker[w1].anchor_id = worker[w2].anchor_id)
            => ~(IsNone(worker[w1].existing) /\ IsNone(worker[w2].existing))

\* C21 amended: each upserted patch adds one to exactly one counter, chosen by
\* what the job's get_edge returned: created when it returned no edge (split
\* into anchor and candidate edges by the canonical endpoints), reinforced when
\* the edge read lacks the job's anchor, noop_existing when the edge read holds
\* it; the three counters sum to the patches processed and the split sums to
\* edges_created.
C21_TallyByWhatWasRead ==
    /\ [](\A w \in Workers :
             /\ worker[w].edges_created + worker[w].edges_reinforced
                    + worker[w].edges_noop_existing = Processed(w)
             /\ worker[w].anchor_edges_created + worker[w].candidate_edges_created
                    = worker[w].edges_created
             /\ (worker[w].pc = "done" /\ "edges_noop_existing" \in DOMAIN worker[w].result) =>
                   /\ worker[w].result.edges_created + worker[w].result.edges_reinforced
                          + worker[w].result.edges_noop_existing = Len(worker[w].patches)
                   /\ worker[w].result.anchor_edges_created
                          + worker[w].result.candidate_edges_created
                          = worker[w].result.edges_created)
    /\ [][\A w \in Workers :
             UpsertStep(w) =>
                 LET me == worker[w]
                     e == me.full_edge
                     onAnchor == e.from_id = me.anchor_id \/ e.to_id = me.anchor_id
                     one(b) == IF b THEN 1 ELSE 0
                     created == IsNone(me.existing)
                     seen == ~created /\ Contains(me.existing.anchors_seen, me.anchor_id)
                 IN  Counters(worker'[w]) =
                         <<me.edges_created + one(created),
                           me.edges_reinforced + one(~created /\ ~seen),
                           me.edges_noop_existing + one(seen),
                           me.anchor_edges_created + one(created /\ onAnchor),
                           me.candidate_edges_created + one(created /\ ~onAnchor)>>]_vars

\* C21 witness: a job has counted a patch as noop_existing: the edge it read
\* already held its anchor.
C21_NoopCounted ==
    \E w \in Workers :
        /\ JustUpserted(w)
        /\ worker[w].edges_noop_existing = 1
        /\ worker[w].edges_reinforced = 0
        /\ Contains(worker[w].existing.anchors_seen, worker[w].anchor_id)

\* Worker w's job has been abandoned.
Abandoned(w) == worker[w].pc = "raised"

\* C22 as claimed, last part: an abandoned job has not updated the inference
\* counter and timestamp of its anchor.
C22_AbandonedLeftAnchorAlone ==
    \A w \in Workers : Abandoned(w) => ~worker[w].anchor_inferred

\* C22 amended: abandoning a job changes neither the store nor the queue, so
\* the edges of the patches already upserted stay as written; nothing is
\* written or enqueued for the job afterwards; and the anchor is marked only
\* when the timeout came after _mark_anchor_inferred, all patches upserted.
C22_AbandonedKeepsWritten ==
    /\ [][\A w \in Workers :
             (~Abandoned(w) /\ worker'[w].pc = "raised") =>
                 UNCHANGED <<products, edges, writers, queue, nextJobId>>]_vars
    /\ [][(\E w \in Workers : Abandoned(w)) =>
             UNCHANGED <<products, edges, writers, queue, nextJobId>>]_vars
    /\ [](\A w \in Workers :
             Abandoned(w) =>
                 /\ worker[w].result = None
                 /\ worker[w].anchor_inferred => worker[w].idx = Len(worker[w].patches) + 1
                 /\ worker[w].idx <= Len(worker[w].patches) => ~worker[w].anchor_inferred)

\* C22 witness: a job was abandoned after the first of its patches was
\* upserted and before the second was: the edge of the first patch is stored,
\* created by this job, and the anchor is not marked.
C22_AbandonedAfterFirstPatch ==
    \E w \in Workers :
        /\ Abandoned(w)
        /\ Len(worker[w].patches) = 2
        /\ worker[w].idx = 2
        /\ TaskEdgeId(worker[w].patches[1]) # TaskEdgeId(worker[w].patches[2])
        /\ TaskEdgeId(worker[w].patches[1]) \in DOMAIN edges
        /\ edges[TaskEdgeId(worker[w].patches[1])].created_in_job_id = worker[w].job_id
        /\ TaskEdgeId(worker[w].patches[2]) \notin DOMAIN edges
        /\ ~worker[w].anchor_inferred

\* C23: the views sent to the inference collaborator hold the eight view
\* fields and nothing else, each taken from the stored product (tags absent
\* becomes the empty list), and two stored products that agree on the eight
\* fields give the same view, whatever their other properties are.
C23_ViewsDependOnViewFields ==
    pure.step \in {"anchor_views", "candidate_views"} =>
        /\ Restrict(pure.first, ViewKeys) = Restrict(pure.second, ViewKeys)
              => pure.out[1] = pure.out[2]
        /\ pure.out[1] # ValueError =>
              /\ DOMAIN pure.out[1] = ViewKeys
              /\ \A k \in ViewKeys \ {"tags"} : pure.out[1][k] = pure.first[k]
              /\ pure.out[1].tags = IF pure.first.tags = None THEN [v |-> <<>>]
                                    ELSE pure.first.tags

\* C23 witness: two anchors that differ in the embedding, in nothing the view
\* has, were projected to the same view.
C23_SameViewOtherEmbedding ==
    /\ pure.step = "anchor_views"
    /\ pure.first.embedding # pure.second.embedding
    /\ Restrict(pure.first, ViewKeys) = Restrict(pure.second, ViewKeys)
    /\ pure.out[1] # ValueError
    /\ pure.out[1] = pure.out[2]

\* C24: no step of a query or of a job creates or deletes a Product node: the
\* set of product ids in the store never changes.
C24_ProductSetUnchanged ==
    [][products' = products]_vars

\* C25: confidence_from_anchors is 0 for n <= 0, non-decreasing in n, and
\* between 0 and the cap.
C25_ConfidenceMonotoneBounded ==
    pure.step = "confidence" =>
        /\ pure.n <= 0 => pure.out[2] = 0
        /\ pure.m <= pure.n => pure.out[1] <= pure.out[2]
        /\ 0 <= pure.out[2]
        /\ pure.out[2] <= CONF_CAP_MILLI

\* C25 witness: the confidence of no anchor is 0 and that of a larger count
\* has reached the cap.
C25_ZeroAndCap ==
    /\ pure.step = "confidence"
    /\ pure.m <= 0
    /\ pure.n > 0
    /\ pure.out = <<0, CONF_CAP_MILLI>>

\* C26 as claimed: confidence_from_anchors is strictly increasing from n = 1.
C26_StrictlyIncreasing ==
    (pure.step = "confidence" /\ 1 <= pure.m /\ pure.m < pure.n)
        => pure.out[1] < pure.out[2]

\* C26 amended: from n = 1 the confidence is strictly increasing as long as it
\* is below the cap and stays at the cap once it has reached it.
C26_IncreasingUpToCap ==
    (pure.step = "confidence" /\ 1 <= pure.m /\ pure.m < pure.n) =>
        \/ pure.out[1] < pure.out[2]
        \/ pure.out[1] = CONF_CAP_MILLI /\ pure.out[2] = CONF_CAP_MILLI

\* C26 witness: two different counts of anchors have the same confidence, the
\* cap.
C26_TwoCountsAtCap ==
    /\ pure.step = "confidence"
    /\ 1 <= pure.m
    /\ pure.m < pure.n
    /\ pure.out[1] = pure.out[2]
    /\ pure.out[2] = CONF_CAP_MILLI

\* The elements of a list that repeat an earlier one.
Repeats(s) == Len(s) - Cardinality(Range(s))

\* C27: materialize against an existing edge e under anchor a returns
\* e.anchors_seen when a is in it and e.anchors_seen followed by a otherwise
\* (e.anchors_seen is a prefix, at most one element more, no new duplicate),
\* with e's created_at and exactly e's provenance fields, whatever created_kind
\* and job_id are passed.
C27_ReinforcementKeepsPrefixAndProvenance ==
    (pure.step = "materialized_with_args" /\ ~IsNone(pure.existing)) =>
        LET e == pure.existing
            a == pure.anchor_id
            r == pure.out[1]
        IN  /\ r.anchors_seen = IF Contains(e.anchors_seen, a) THEN e.anchors_seen
                                ELSE Append(e.anchors_seen, a)
            /\ SubSeq(r.anchors_seen, 1, Len(e.anchors_seen)) = e.anchors_seen
            /\ Len(r.anchors_seen) >= Len(e.anchors_seen)
            /\ Len(r.anchors_seen) <= Len(e.anchors_seen) + 1
            /\ Repeats(r.anchors_seen) = Repeats(e.anchors_seen)
            /\ r.created_at = e.created_at
            /\ Restrict(r, ProvenanceKeys) = Restrict(e, ProvenanceKeys)
            /\ r = Materialize(pure.patch, a, e, None, None, 1)

\* C27 witness: an edge without provenance fields was reinforced by a new
\* anchor with created_kind and job_id passed; the result has none of them.
C27_ArgsIgnoredOnReinforcement ==
    /\ pure.step = "materialized_with_args"
    /\ ~IsNone(pure.existing)
    /\ pure.created_kind # None
    /\ pure.job_id # None
    /\ DOMAIN pure.existing \cap ProvenanceKeys = {}
    /\ ~Contains(pure.existing.anchors_seen, pure.anchor_id)
    /\ Len(pure.out[1].anchors_seen) = Len(pure.existing.anchors_seen) + 1
    /\ DOMAIN pure.out[1] \cap ProvenanceKeys = {}

\* C28: materializing under anchor x and then under anchor y gives the same
\* set of anchors, the same confidence and the same status as materializing
\* under y and then under x.
C28_ReinforcementCommutes ==
    pure.step = "both_orders" =>
        /\ AnchorSet(pure.out[1]) = AnchorSet(pure.out[2])
        /\ pure.out[1].confidence_0_to_1 = pure.out[2].confidence_0_to_1
        /\ pure.out[1].status = pure.out[2].status

\* C28 witness: two new anchors were added to an existing edge in both
\* orders; the lists differ, and the sets do not.
C28_TwoNewAnchorsBothOrders ==
    /\ pure.step = "both_orders"
    /\ ~IsNone(pure.existing)
    /\ pure.anchor_id # pure.other
    /\ ~Contains(pure.existing.anchors_seen, pure.anchor_id)
    /\ ~Contains(pure.existing.anchors_seen, pure.other)
    /\ pure.out[1].anchors_seen # pure.out[2].anchors_seen
    /\ AnchorSet(pure.out[1]) = AnchorSet(pure.out[2])

\* C29: when no edge is written between the graph lookup and the filter of a
\* query that does not skip inference, no vector-sourced recommendation has an
\* edge with the anchor, the filter keeps them all in order, and a job, with
\* exactly these candidates, is enqueued iff from_vector > 0.
C29_FilterKeepsAllVectorResults ==
    [][(q.pc = "enqueue_inference" /\ q'.pc = "return"
            /\ ~q.skip_inference /\ config.openai_api_key) =>
          LET vector_ids == RecommendedIds(q.recommendations, "vector")
          IN  /\ Len(vector_ids) = q.from_vector
              /\ \A i \in DOMAIN vector_ids :
                    EdgesBetween(edges, q.product_id, vector_ids[i]) = {}
              /\ q'.new_candidates = vector_ids
              /\ EnqueuesOne <=> q.from_vector > 0
              /\ q'.inference_status = IF q.from_vector > 0 THEN "enqueued" ELSE "complete"
              /\ EnqueuesOne => queue'[Len(queue')].candidate_ids = vector_ids]_vars

\* C29 witness: a query with one graph neighbour and one vector result has
\* enqueued a job for the vector result alone.
C29_MixedResultEnqueued ==
    /\ q.pc = "return"
    /\ q.from_graph = 1
    /\ q.from_vector = 1
    /\ q.inference_status = "enqueued"
    /\ q.new_candidates = RecommendedIds(q.recommendations, "vector")
    /\ queue # <<>>
    /\ queue[Len(queue)].candidate_ids = q.new_candidates

\* C30: under any interleaving of jobs every stored edge has a non-empty
\* anchors_seen without duplicates whose anchors are anchors of jobs that have
\* upserted the edge; and an upsert whose job read the edge as it is stored
\* when the upsert runs (its window overlaps no other job's on that edge)
\* keeps the stored anchors equal to the anchors of all jobs that have
\* upserted the edge, so that without overlapping windows the two are equal
\* when the jobs have finished.
C30_AnchorsSeenNeverOverCounts ==
    /\ [](\A id \in DOMAIN edges :
             /\ edges[id].anchors_seen # <<>>
             /\ Repeats(edges[id].anchors_seen) = 0
             /\ id \in DOMAIN writers
             /\ AnchorSet(edges[id]) \subseteq writers[id])
    /\ [][\A w \in Workers :
             (/\ UpsertStep(w)
              /\ FreshRead(w)
              /\ worker[w].edge_id \in DOMAIN edges
                    => AnchorSet(edges[worker[w].edge_id]) = writers[worker[w].edge_id])
                => AnchorSet(edges'[worker[w].edge_id]) = writers'[worker[w].edge_id]]_vars

\* C30 witness: all jobs have finished, every upsert wrote over the edge its
\* job had read, and an edge upserted under three or more anchors holds
\* exactly these.
C30_AllObserversCounted ==
    /\ queue = <<>>
    /\ \A w \in Workers : worker[w].pc = "idle" /\ ~stale[w]
    /\ \E id \in DOMAIN edges :
          /\ Cardinality(writers[id]) >= 3
          /\ AnchorSet(edges[id]) = writers[id]

====
